---- MODULE Spec2Model ----
(***************************************************************************)
(* A model of the EventEmitter of supercat1337/event-emitter: the listener *)
(* registry of EventEmitterLite (on / once / off / emit) and the lifecycle *)
(* layer of EventEmitter built on it (meta channels, clear, destroy,       *)
(* waits).  JavaScript runs one call at a time, so the model is one call   *)
(* stack: a frame per running loop or function body, and `ret` carrying    *)
(* the outcome of the call that just finished to the frame below it.       *)
(* Listener and callback bodies are user code: a body may call any public  *)
(* operation of the emitter, return, or throw.                             *)
(***************************************************************************)
EXTENDS Integers, Sequences, FiniteSets, TLC

\* ------------------------------------------------------------------ inputs
Keys == {"a", "b"}
Listeners == {"L1", "L2"}
Callbacks == {"c1", "c2"}
Args == {"x", "y"}
\* the event lists waitForAnyEvent is called with
WaitLists == {<<"a", "b">>, <<"b", "a", "b">>}

HAS == "#has-listeners"
NOL == "#no-listeners"
LERR == "#listener-error"
Channels == {HAS, NOL, LERR}

DESTROYED == "EventEmitter is destroyed"

\* The number of public operations one run performs (in main, listeners and
\* callbacks together).
MaxCalls == 3

VARIABLES
    events,            \* EventEmitterLite.events: <<[key, ls]>> in key insertion order
    internalEvents,    \* EventEmitter.#internalEvents: channel -> callbacks
    isDestroyed,       \* EventEmitter.#isDestroyed
    isReportingError,  \* EventEmitter.#isReportingError
    logErrors,         \* EventEmitterLite.logErrors
    stack,             \* the JavaScript call stack, innermost frame last
    ret,               \* outcome of the call that has just returned to the top frame
    nextRid,           \* serial of the next registration (on() calls that pushed)
    budget,            \* public operations user code may still call in this run
    console,           \* number of console.error reports
    fired,             \* serials of the once-registrations whose listener was run, in order
    unsubs,            \* the unsubscribers returned so far
    called,            \* serials of the registrations whose unsubscriber was called, in order
    waits              \* the waits started so far: timer, promise, unsubscribers

vars == <<events, internalEvents, isDestroyed, isReportingError, logErrors,
          stack, ret, nextRid, budget, console, fired, unsubs, called, waits>>

\* --------------------------------------------------------------- registry
\* A registration: kind "fn" is a callable registered by on(), kind "once"
\* the wrapper made by once() (fn is wrapper[ORIGINAL]), kind "wait" the
\* onEvent resolver of a wait (n is the wait).  n tells wrappers apart: every
\* once() makes a new closure.  rid is the serial of the registration, mid
\* whether it was made while an emission of its event was in progress.
Entry(kind, fn, n, rid) ==
    [kind |-> kind, fn |-> fn, n |-> n, rid |-> rid, mid |-> FALSE]

NoEnt == Entry("none", "", 0, 0)

\* The function value an entry holds: what === compares.
Id(l) == [kind |-> l.kind, fn |-> l.fn, n |-> l.n]

PlainId(fn) == [kind |-> "fn", fn |-> fn, n |-> 0]

CallbackId(cb) == [kind |-> "cb", fn |-> cb, n |-> 0]

NotAFunction == [kind |-> "nonfn", fn |-> "", n |-> 0]

KeysOf(evs) == {evs[j].key : j \in 1..Len(evs)}

HasKey(evs, e) == e \in KeysOf(evs)

KeyIndex(evs, e) == CHOOSE j \in 1..Len(evs) : evs[j].key = e

\* this.events[event]
Get(evs, e) == evs[KeyIndex(evs, e)].ls

\* this.events[event] = ls, a new key going last in Object.keys order
Put(evs, e, ls) ==
    IF HasKey(evs, e)
    THEN [evs EXCEPT ![KeyIndex(evs, e)].ls = ls]
    ELSE Append(evs, [key |-> e, ls |-> ls])

\* delete this.events[event]
Del(evs, e) == SelectSeq(evs, LAMBDA r : r.key # e)

\* Array.prototype.splice(idx, 1)
Splice(s, idx) == SubSeq(s, 1, idx - 1) \o SubSeq(s, idx + 1, Len(s))

\* removeListener comparing the registered function only: l === listener
MatchesIdentityOnly(l, target) == Id(l) = target

\* l === listener || l[ORIGINAL] === listener
Matches(l, target) ==
    \/ Id(l) = target
    \/ l.kind = "once" /\ target = PlainId(l.fn)

\* removeListener looking for the last match (findLastIndex)
FindLastIndex(ls, target) ==
    IF \E j \in 1..Len(ls) : Matches(ls[j], target)
    THEN CHOOSE j \in 1..Len(ls) :
            /\ Matches(ls[j], target)
            /\ \A k \in (j + 1)..Len(ls) : ~Matches(ls[k], target)
    ELSE 0

\* listeners.findIndex(...): 0 stands for -1
FindIndex(ls, target) ==
    IF \E j \in 1..Len(ls) : Matches(ls[j], target)
    THEN CHOOSE j \in 1..Len(ls) :
            /\ Matches(ls[j], target)
            /\ \A k \in 1..(j - 1) : ~Matches(ls[k], target)
    ELSE 0

\* EventEmitterLite.emit: the copy of the listeners it loops over
LiteEmitQueue(evs, e) == IF HasKey(evs, e) THEN Get(evs, e) ELSE <<>>

\* EventEmitterLite.emit: what catch (e) writes to the console
LiteEmitLogs(log) == IF log THEN 1 ELSE 0

\* EventEmitterLite.on: the registry after pushing the listener
LiteOn(evs, e, l) ==
    Put(evs, e, Append(IF HasKey(evs, e) THEN Get(evs, e) ELSE <<>>, l))

\* removeListener without `if (listeners.length === 0) delete this.events[event]`
LiteRemoveListenerKeepsKey(evs, e, target) ==
    IF target.kind = "nonfn" THEN evs
    ELSE IF ~HasKey(evs, e) THEN evs
    ELSE LET ls == Get(evs, e)
             idx == FindIndex(ls, target)
         IN  IF idx = 0 THEN evs ELSE Put(evs, e, Splice(ls, idx))

\* removeListener dropping every match: listeners.filter(l => !matches(l))
LiteRemoveListenerAll(evs, e, target) ==
    IF target.kind = "nonfn" THEN evs
    ELSE IF ~HasKey(evs, e) THEN evs
    ELSE LET ls == SelectSeq(Get(evs, e), LAMBDA l : ~Matches(l, target))
         IN  IF ls = <<>> THEN Del(evs, e) ELSE Put(evs, e, ls)

\* EventEmitterLite.removeListener: the registry after the call
LiteRemoveListener(evs, e, target) ==
    IF target.kind = "nonfn" THEN evs
    ELSE IF ~HasKey(evs, e) THEN evs
    ELSE LET ls == Get(evs, e)
             idx == FindIndex(ls, target)
         IN  IF idx = 0 THEN evs
             ELSE IF Len(ls) = 1 THEN Del(evs, e)
             ELSE Put(evs, e, Splice(ls, idx))

\* Array.prototype.indexOf and splice of #removeInternalListener
RemoveInternal(fns, cb) ==
    IF \E j \in 1..Len(fns) : fns[j] = cb
    THEN Splice(fns, CHOOSE j \in 1..Len(fns) :
                        fns[j] = cb /\ \A k \in 1..(j - 1) : fns[k] # cb)
    ELSE fns

EmptyInternal == [c \in Channels |-> <<>>]

\* the serials of a listener sequence, in its order
Rids(ls) == [j \in 1..Len(ls) |-> ls[j].rid]

\* the serials of all registrations of the registry
AllRids(evs) ==
    UNION {{evs[j].ls[k].rid : k \in 1..Len(evs[j].ls)} : j \in 1..Len(evs)}

\* the number of listeners of e
Count(evs, e) == IF HasKey(evs, e) THEN Len(Get(evs, e)) ELSE 0

\* An unsubscriber: () => this.removeListener(ev, target), made for
\* registration rid; or, meta, () => this.#removeInternalListener(ev, target).
Unsub(meta, ev, target, rid) ==
    [meta |-> meta, ev |-> ev, target |-> target, rid |-> rid]

NoUnsub == Unsub(FALSE, "", NotAFunction, 0)

\* [...new Set(events)]
RECURSIVE Unique(_)
Unique(s) ==
    IF s = <<>> THEN <<>>
    ELSE LET r == Unique(SubSeq(s, 1, Len(s) - 1))
             x == s[Len(s)]
         IN  IF \E j \in 1..Len(r) : r[j] = x THEN r ELSE Append(r, x)

\* ------------------------------------------------------------------ stack
\* One frame shape for every kind of frame; a kind uses the fields it needs.
\*   op      "main", "listener", "callback" (bodies of user code), "emit",
\*           "emitInternal", "wrapper", "clear", "destroy"
\*   pc      where the frame is
\*   ev      the event of an emit / wrapper, the channel of an emitInternal
\*   arg     the argument emit was called with
\*   queue   emit: the snapshot of the listeners
\*   fns     emitInternal: the snapshot of the callbacks
\*   names   clear: Object.keys(this.events)
\*   i       index of the loop
\*   ent     the function that is running (listener / wrapper)
\*   pl      emitInternal: the arguments handed to the callbacks
\*   err     the error being handled
\*   tail    emitInternal: the operation that returns when the dispatch does
\*   unsub   emitInternal: the unsubscriber that operation then returns
\*   atStart emit: the registrations of ev when emit was called
\*   ridAt   emit, clear: nextRid when it was called
\*   invoked emit: serials of the registrations invoked so far; clear: the
\*           events '#no-listeners' was dispatched for since clear was called
\*   goneAt  emit: serials of the registrations made and no longer registered
\*           when emit was called
\*   threw   emit: number of listeners that threw so far
\*   expect  emit: for the listeners that threw so far, in order, one
\*           <<callback, <<error, event, arg>>>> per '#listener-error'
\*           callback registered at the throw
\*   deliv   emit: the <<callback, arguments>> the '#listener-error' callbacks
\*           were invoked with for this emission, in order
\*   net     main: for each event, the dispatches of '#has-listeners' less the
\*           dispatches of '#no-listeners' made so far
Frame(op) ==
    [op |-> op, pc |-> "run", ev |-> "", arg |-> "", queue |-> <<>>,
     fns |-> <<>>, names |-> <<>>, i |-> 1, ent |-> NoEnt, pl |-> <<>>,
     err |-> "", tail |-> "", unsub |-> NoUnsub, atStart |-> <<>>,
     ridAt |-> 0, goneAt |-> {}, invoked |-> <<>>, threw |-> 0,
     expect |-> <<>>, deliv |-> <<>>, net |-> [e \in Keys |-> 0]]

Top == stack[Len(stack)]

Pop == SubSeq(stack, 1, Len(stack) - 1)

Push(f) == Append(stack, f)

\* the stack with its top frame replaced
SetTop(f) == [stack EXCEPT ![Len(stack)] = f]

\* The outcome of a call: st "ok" (it returned) or "throw" (with err), from
\* the function that returned; dead tells that the emitter was destroyed
\* when the call was made.  st "none": the top frame is running.
None == [st |-> "none", err |-> "", from |-> "", dead |-> FALSE]

Ok(from) == [st |-> "ok", err |-> "", from |-> from, dead |-> FALSE]

Thrown(err, from) == [st |-> "throw", err |-> err, from |-> from, dead |-> FALSE]

\* the outcome r of a call that returns at once
AtOnce(r) == [r EXCEPT !.dead = isDestroyed]

IsBody(f) == f.op \in {"main", "listener", "callback"}

\* User code is running and may call the emitter.
InBody == IsBody(Top) /\ ret.st = "none"

CanCall == InBody /\ budget > 0

\* a new EventEmitter, and user code that will call it `n` times
Fresh(n) ==
    /\ events = <<>>
    /\ internalEvents = EmptyInternal
    /\ isDestroyed = FALSE
    /\ isReportingError = FALSE
    /\ logErrors = TRUE
    /\ stack = <<Frame("main")>>
    /\ ret = None
    /\ nextRid = 1
    /\ budget = n
    /\ console = 0
    /\ fired = <<>>
    /\ unsubs = {}
    /\ called = <<>>
    /\ waits = <<>>

Init == Fresh(MaxCalls)

\* ----------------------------------------------- operations of the emitter
\* this.#emitInternal(ch, ...pl) is called: its frame, holding the copy of the
\* callbacks (an empty copy returns at once).  `tail` is the public operation
\* that returns when this dispatch does.
EIFrame(ch, pl, tail, u) ==
    [Frame("emitInternal") EXCEPT !.ev = ch, !.pl = pl,
                                  !.fns = internalEvents[ch], !.tail = tail,
                                  !.unsub = u]

\* an emission of e is in progress
Emitting(e) ==
    \E n \in 1..Len(stack) : stack[n].op = "emit" /\ stack[n].ev = e

\* isFirst also when there is one listener already
IsFirstOrSecond(evs, e) == ~HasKey(evs, e) \/ Len(Get(evs, e)) <= 1

\* removeListener emitting '#no-listeners' without looking at the registry
NowAbsentUnchecked(evs, e) == TRUE

\* isFirst whatever the registry holds
IsFirstAlways(evs, e) == TRUE

\* const isFirst = !this.events[event] || this.events[event].length === 0
IsFirst(evs, e) == ~HasKey(evs, e) \/ Len(Get(evs, e)) = 0

\* if (!this.events[event]) after super.removeListener
NowAbsent(evs, e) == ~HasKey(evs, e)

\* The stack stk with a dispatch of '#no-listeners' for e noted in the frames
\* of the clear() calls in progress.
Noted(stk, e) ==
    [n \in 1..Len(stk) |->
        IF stk[n].op = "clear"
        THEN [stk[n] EXCEPT !.invoked = Append(@, e)]
        ELSE IF n = 1
        THEN [stk[n] EXCEPT !.net[e] = @ - 1]
        ELSE stk[n]]

\* The stack stk with a dispatch of '#has-listeners' for e counted in the
\* frame of the main program.
Announced(stk, e) == [stk EXCEPT ![1].net[e] = @ + 1]

\* on putting the listener first: this.events[event].unshift(listener)
DoOnFront(stk, e, l, from, u) ==
    IF isDestroyed
    THEN /\ ret' = AtOnce(Thrown(DESTROYED, from))
         /\ stack' = stk
         /\ UNCHANGED <<events, nextRid, unsubs>>
    ELSE LET isFirst == IsFirst(events, e)
         IN  /\ events' = Put(events, e,
                              <<[l EXCEPT !.mid = Emitting(e)]>> \o
                              (IF HasKey(events, e) THEN Get(events, e) ELSE <<>>))
             /\ nextRid' = nextRid + 1
             /\ IF isFirst
                THEN /\ stack' = Append(Announced(stk, e),
                                     EIFrame(HAS, <<e>>, from, u))
                     /\ ret' = None
                     /\ UNCHANGED unsubs
                ELSE /\ stack' = stk
                     /\ ret' = Ok(from)
                     /\ unsubs' = unsubs \cup ({u} \ {NoUnsub})

\* on without `if (this.#isDestroyed) throw`
DoOnUnguarded(stk, e, l, from, u) ==
    LET isFirst == IsFirst(events, e)
    IN  /\ events' = LiteOn(events, e, [l EXCEPT !.mid = Emitting(e)])
        /\ nextRid' = nextRid + 1
        /\ IF isFirst
           THEN /\ stack' = Append(Announced(stk, e),
                                     EIFrame(HAS, <<e>>, from, u))
                /\ ret' = None
                /\ UNCHANGED unsubs
           ELSE /\ stack' = stk
                /\ ret' = Ok(from)
                /\ unsubs' = unsubs \cup ({u} \ {NoUnsub})

\* EventEmitter.on(e, l), called with the stack stk below it; u is the
\* unsubscriber it returns (NoUnsub when the caller keeps it to itself).
DoOn(stk, e, l, from, u) ==
    IF isDestroyed
    THEN /\ ret' = AtOnce(Thrown(DESTROYED, from))
         /\ stack' = stk
         /\ UNCHANGED <<events, nextRid, unsubs>>
    ELSE LET isFirst == IsFirst(events, e)
         IN  /\ events' = LiteOn(events, e, [l EXCEPT !.mid = Emitting(e)])
             /\ nextRid' = nextRid + 1
             /\ IF isFirst
                THEN /\ stack' = Append(Announced(stk, e),
                                     EIFrame(HAS, <<e>>, from, u))
                     /\ ret' = None
                     /\ UNCHANGED unsubs
                ELSE /\ stack' = stk
                     /\ ret' = Ok(from)
                     /\ unsubs' = unsubs \cup ({u} \ {NoUnsub})

\* removeListener dispatching '#no-listeners' after every removal
DoRemoveListenerNotifiesAlways(stk, e, target, from) ==
    IF target.kind = "nonfn" \/ isDestroyed \/ ~HasKey(events, e)
    THEN /\ ret' = AtOnce(Ok(from))
         /\ stack' = stk
         /\ UNCHANGED events
    ELSE /\ events' = LiteRemoveListener(events, e, target)
         /\ stack' = Append(Noted(stk, e), EIFrame(NOL, <<e>>, from, NoUnsub))
         /\ ret' = None

\* removeListener without `typeof listener !== 'function'`: undefined is the
\* l[ORIGINAL] of every listener that once() did not make
DoRemoveListenerUntyped(stk, e, target, from) ==
    IF isDestroyed \/ ~HasKey(events, e)
    THEN /\ ret' = AtOnce(Ok(from))
         /\ stack' = stk
         /\ UNCHANGED events
    ELSE LET ls == Get(events, e)
             plain == {j \in 1..Len(ls) : ls[j].kind # "once"}
             first == CHOOSE j \in plain : \A k \in plain : j <= k
         IN  /\ events' =
                   IF target.kind # "nonfn"
                   THEN LiteRemoveListener(events, e, target)
                   ELSE IF plain = {} THEN events
                   ELSE IF Len(ls) = 1 THEN Del(events, e)
                   ELSE Put(events, e, Splice(ls, first))
             /\ IF NowAbsent(events', e)
                THEN /\ stack' = Append(Noted(stk, e), EIFrame(NOL, <<e>>, from, NoUnsub))
                     /\ ret' = None
                ELSE stack' = stk /\ ret' = Ok(from)

\* EventEmitter.removeListener(e, target), called with the stack stk below it.
DoRemoveListener(stk, e, target, from) ==
    IF target.kind = "nonfn" \/ isDestroyed \/ ~HasKey(events, e)
    THEN /\ ret' = AtOnce(Ok(from))
         /\ stack' = stk
         /\ UNCHANGED events
    ELSE /\ events' = LiteRemoveListener(events, e, target)
         /\ IF NowAbsent(events', e)
            THEN /\ stack' = Append(Noted(stk, e), EIFrame(NOL, <<e>>, from, NoUnsub))
                 /\ ret' = None
            ELSE stack' = stk /\ ret' = Ok(from)

\* clearEventListeners without `listeners && listeners.length > 0`
DoClearEventListenersAlways(stk, e, from) ==
    IF ~isDestroyed
    THEN /\ events' = Del(events, e)
         /\ stack' = Append(Noted(stk, e), EIFrame(NOL, <<e>>, from, NoUnsub))
         /\ ret' = None
    ELSE /\ ret' = AtOnce(Ok(from))
         /\ stack' = stk
         /\ UNCHANGED events

\* clearEventListeners deleting the key without this.#emitInternal
DoClearEventListenersSilent(stk, e, from) ==
    IF ~isDestroyed /\ HasKey(events, e) /\ Len(Get(events, e)) > 0
    THEN /\ events' = Del(events, e)
         /\ stack' = stk
         /\ ret' = Ok(from)
    ELSE /\ ret' = AtOnce(Ok(from))
         /\ stack' = stk
         /\ UNCHANGED events

\* EventEmitter.clearEventListeners(e), called with the stack stk below it.
DoClearEventListeners(stk, e, from) ==
    IF ~isDestroyed /\ HasKey(events, e) /\ Len(Get(events, e)) > 0
    THEN /\ events' = Del(events, e)
         /\ stack' = Append(Noted(stk, e), EIFrame(NOL, <<e>>, from, NoUnsub))
         /\ ret' = None
    ELSE /\ ret' = AtOnce(Ok(from))
         /\ stack' = stk
         /\ UNCHANGED events

\* ------------------------------------------------ calls made by user code
Called == budget' = budget - 1

CallOn(e, fn) ==
    /\ CanCall
    /\ Called
    /\ LET l == Entry("fn", fn, 0, nextRid)
       IN  DoOn(stack, e, l, "on", Unsub(FALSE, e, Id(l), l.rid))
    /\ UNCHANGED <<internalEvents, isDestroyed, isReportingError, logErrors,
                   console, fired, called, waits>>

\* once(): the wrapper is a new closure, told apart by n.
CallOnce(e, fn) ==
    /\ CanCall
    /\ Called
    /\ LET l == Entry("once", fn, nextRid, nextRid)
       IN  DoOn(stack, e, l, "once", Unsub(FALSE, e, Id(l), l.rid))
    /\ UNCHANGED <<internalEvents, isDestroyed, isReportingError, logErrors,
                   console, fired, called, waits>>

\* off(e, listener) / removeListener(e, listener) with a callable, or with
\* something that is no function
CallOff(e, target) ==
    /\ CanCall
    /\ Called
    /\ DoRemoveListener(stack, e, target, "off")
    /\ UNCHANGED <<internalEvents, isDestroyed, isReportingError, logErrors,
                   nextRid, console, fired, called, unsubs, waits>>

\* an unsubscriber returned by on / once is called
CallUnsub(u) ==
    /\ CanCall
    /\ Called
    /\ ~u.meta
    /\ DoRemoveListener(stack, u.ev, u.target, "unsub")
    /\ called' = Append(called, u.rid)
    /\ UNCHANGED <<internalEvents, isDestroyed, isReportingError, logErrors,
                   nextRid, console, fired, unsubs, waits>>

\* emit(e, a)
CallEmit(e, a) ==
    /\ CanCall
    /\ Called
    /\ IF isDestroyed \/ ~HasKey(events, e)
       THEN stack' = stack /\ ret' = AtOnce(Ok("emit"))
       ELSE /\ stack' = Push([Frame("emit") EXCEPT
                                 !.ev = e, !.arg = a,
                                 !.queue = Get(events, e),
                                 !.atStart = Get(events, e),
                                 !.ridAt = nextRid,
                                 !.goneAt = (1..(nextRid - 1)) \ AllRids(events)])
            /\ ret' = None
    /\ UNCHANGED <<events, internalEvents, isDestroyed, isReportingError,
                   logErrors, nextRid, console, fired, called, unsubs, waits>>

CallClearEventListeners(e) ==
    /\ CanCall
    /\ Called
    /\ DoClearEventListeners(stack, e, "clearEventListeners")
    /\ UNCHANGED <<internalEvents, isDestroyed, isReportingError, logErrors,
                   nextRid, console, fired, called, unsubs, waits>>

\* clear() that clears the first event key only
CallClearFirstKey ==
    /\ CanCall
    /\ Called
    /\ IF isDestroyed
       THEN stack' = stack /\ ret' = AtOnce(Ok("clear"))
       ELSE /\ stack' = Push([Frame("clear") EXCEPT
                                 !.names = [j \in 1..(IF events = <<>> THEN 0 ELSE 1)
                                               |-> events[j].key],
                                 !.ridAt = nextRid])
            /\ ret' = None
    /\ UNCHANGED <<events, internalEvents, isDestroyed, isReportingError,
                   logErrors, nextRid, console, fired, called, unsubs, waits>>

\* clear(): Object.keys(this.events) is read once
CallClear ==
    /\ CanCall
    /\ Called
    /\ IF isDestroyed
       THEN stack' = stack /\ ret' = AtOnce(Ok("clear"))
       ELSE /\ stack' = Push([Frame("clear") EXCEPT
                                 !.names = [j \in 1..Len(events) |-> events[j].key],
                                 !.ridAt = nextRid])
            /\ ret' = None
    /\ UNCHANGED <<events, internalEvents, isDestroyed, isReportingError,
                   logErrors, nextRid, console, fired, called, unsubs, waits>>

\* destroy() without `if (this.#isDestroyed) return`
CallDestroyUnguarded ==
    /\ CanCall
    /\ Called
    /\ stack' = stack \o
          <<Frame("destroy"),
            [Frame("clear") EXCEPT
                !.names = [j \in 1..Len(events) |-> events[j].key],
                !.ridAt = nextRid]>>
    /\ ret' = None
    /\ UNCHANGED <<events, internalEvents, isDestroyed, isReportingError,
                   logErrors, nextRid, console, fired, called, unsubs, waits>>

\* destroy() that sets the flag and wipes the registries without clear()
CallDestroyFlagFirst ==
    /\ CanCall
    /\ Called
    /\ stack' = stack
    /\ ret' = AtOnce(Ok("destroy"))
    /\ isDestroyed' = TRUE
    /\ internalEvents' = IF isDestroyed THEN internalEvents ELSE EmptyInternal
    /\ events' = IF isDestroyed THEN events ELSE <<>>
    /\ UNCHANGED <<isReportingError, logErrors, nextRid, console, fired,
                   called, unsubs, waits>>

\* destroy(): a live emitter calls clear() first
CallDestroy ==
    /\ CanCall
    /\ Called
    /\ IF isDestroyed
       THEN stack' = stack /\ ret' = AtOnce(Ok("destroy"))
       ELSE /\ stack' = stack \o
                  <<Frame("destroy"),
                    [Frame("clear") EXCEPT
                        !.names = [j \in 1..Len(events) |-> events[j].key],
                        !.ridAt = nextRid]>>
            /\ ret' = None
    /\ UNCHANGED <<events, internalEvents, isDestroyed, isReportingError,
                   logErrors, nextRid, console, fired, called, unsubs, waits>>

\* the method that subscribes to channel ch
OnName(ch) ==
    IF ch = HAS THEN "onHasEventListeners"
    ELSE IF ch = NOL THEN "onNoEventListeners"
    ELSE "onListenerError"

\* a meta-channel subscription announced like the first listener of an event
CallOnInternalNotifies(ch, cb) ==
    /\ CanCall
    /\ Called
    /\ IF isDestroyed
       THEN /\ ret' = AtOnce(Thrown(DESTROYED, OnName(ch)))
            /\ stack' = stack
            /\ UNCHANGED <<internalEvents, unsubs>>
       ELSE /\ internalEvents' = [internalEvents EXCEPT ![ch] = Append(@, cb)]
            /\ unsubs' = unsubs \cup {Unsub(TRUE, ch, CallbackId(cb), 0)}
            /\ IF internalEvents[ch] = <<>>
               THEN /\ stack' = Push(EIFrame(HAS, <<ch>>, OnName(ch), NoUnsub))
                    /\ ret' = None
               ELSE /\ stack' = stack
                    /\ ret' = Ok(OnName(ch))
    /\ UNCHANGED <<events, isDestroyed, isReportingError, logErrors,
                   nextRid, console, fired, called, waits>>

\* onHasEventListeners / onNoEventListeners / onListenerError
CallOnInternal(ch, cb) ==
    /\ CanCall
    /\ Called
    /\ IF isDestroyed
       THEN /\ ret' = AtOnce(Thrown(DESTROYED, OnName(ch)))
            /\ UNCHANGED <<internalEvents, unsubs>>
       ELSE /\ internalEvents' = [internalEvents EXCEPT ![ch] = Append(@, cb)]
            /\ unsubs' = unsubs \cup {Unsub(TRUE, ch, CallbackId(cb), 0)}
            /\ ret' = Ok(OnName(ch))
    /\ UNCHANGED <<events, isDestroyed, isReportingError, logErrors, stack,
                   nextRid, console, fired, called, waits>>

\* an unsubscriber returned by one of the three is called
CallInternalUnsub(u) ==
    /\ CanCall
    /\ Called
    /\ u.meta
    /\ internalEvents' = [internalEvents EXCEPT ![u.ev] = RemoveInternal(@, u.target.fn)]
    /\ ret' = AtOnce(Ok("internalUnsub"))
    /\ UNCHANGED <<events, isDestroyed, isReportingError, logErrors, stack,
                   nextRid, console, fired, called, unsubs, waits>>

\* emitter.logErrors = b
SetLogErrors(b) ==
    /\ CanCall
    /\ Called
    /\ logErrors # b
    /\ logErrors' = b
    /\ UNCHANGED <<events, internalEvents, isDestroyed, isReportingError, stack,
                   ret, nextRid, console, fired, called, unsubs, waits>>

\* ------------------------------------------------------ bodies of user code
\* listeners[i].apply(this, args): the frame of the function that is called
Invoke(l, e, a) ==
    IF l.kind = "once"
    THEN [Frame("wrapper") EXCEPT !.ent = l, !.ev = e, !.arg = a, !.pc = "remove"]
    ELSE IF l.kind = "wait"
    THEN [Frame("resolver") EXCEPT !.ent = l, !.arg = "true", !.pc = "start"]
    ELSE [Frame("listener") EXCEPT !.ent = l, !.ev = e, !.arg = a]

\* a listener or callback returns
BodyReturn ==
    /\ InBody
    /\ Top.op # "main"
    /\ stack' = Pop
    /\ ret' = Ok(Top.op)
    /\ UNCHANGED <<events, internalEvents, isDestroyed, isReportingError,
                   logErrors, nextRid, budget, console, fired, called, unsubs, waits>>

\* a listener or callback throws: the error is named after the callable
BodyThrow ==
    /\ InBody
    /\ Top.op # "main"
    /\ stack' = Pop
    /\ ret' = Thrown(Top.ent.fn, Top.op)
    /\ UNCHANGED <<events, internalEvents, isDestroyed, isReportingError,
                   logErrors, nextRid, budget, console, fired, called, unsubs, waits>>

\* the call a body made has returned, or has thrown and the body catches
BodyContinue ==
    /\ IsBody(Top)
    /\ ret.st # "none"
    /\ ret' = None
    /\ UNCHANGED <<events, internalEvents, isDestroyed, isReportingError,
                   logErrors, stack, nextRid, budget, console, fired, called, unsubs,
                   waits>>

\* the call a listener or callback made has thrown and the body does not catch
BodyPropagate ==
    /\ IsBody(Top)
    /\ Top.op # "main"
    /\ ret.st = "throw"
    /\ stack' = Pop
    /\ ret' = Thrown(ret.err, Top.op)
    /\ UNCHANGED <<events, internalEvents, isDestroyed, isReportingError,
                   logErrors, nextRid, budget, console, fired, called, unsubs, waits>>

\* ---------------------------------------------------------- EventEmitter.emit
\* the callee (if any) returned normally
Returned == ret.st \in {"none", "ok"}

\* emit looping over this.events[event] itself, not over a copy
EmitQueueLive(f) == IF HasKey(events, f.ev) THEN Get(events, f.ev) ELSE <<>>

\* emit leaving out the listeners of its copy that are no longer registered
EmitQueueFiltered(f) ==
    SelectSeq(f.queue, LAMBDA l : l.rid \in AllRids(events))

\* const listeners = [...this.events[event]]: what the loop of frame f reads
EmitQueue(f) == f.queue

\* listeners[i].apply(this, args)
EmitInvoke ==
    /\ Top.op = "emit" /\ Top.pc = "run" /\ Returned
    /\ Top.i <= Len(EmitQueue(Top))
    /\ LET l == EmitQueue(Top)[Top.i]
       IN  stack' = Append(SetTop([Top EXCEPT !.i = @ + 1,
                                              !.invoked = Append(@, l.rid)]),
                           Invoke(l, Top.ev, Top.arg))
    /\ ret' = None
    /\ UNCHANGED <<events, internalEvents, isDestroyed, isReportingError,
                   logErrors, nextRid, budget, console, fired, called, unsubs, waits>>

\* emit without its try / catch: the error of a listener leaves emit
EmitCatchRethrow ==
    /\ Top.op = "emit" /\ Top.pc = "run" /\ ret.st = "throw"
    /\ stack' = Pop
    /\ ret' = Thrown(ret.err, "emit")
    /\ UNCHANGED <<events, internalEvents, isDestroyed, isReportingError,
                   logErrors, nextRid, budget, console, fired, called, unsubs, waits>>

\* emit reporting to '#listener-error' only when logErrors is set
EmitCatchOnlyLogged ==
    /\ Top.op = "emit" /\ Top.pc = "run" /\ ret.st = "throw"
    /\ LET f == [Top EXCEPT
                   !.pc = "catch", !.threw = @ + 1,
                   !.expect = @ \o [j \in 1..Len(internalEvents[LERR]) |->
                                      <<internalEvents[LERR][j],
                                        <<ret.err, Top.ev, Top.arg>>>>]]
       IN  IF logErrors
           THEN /\ stack' = Append(SetTop(f),
                                   EIFrame(LERR, <<ret.err, Top.ev, Top.arg>>,
                                           "", NoUnsub))
                /\ ret' = None
           ELSE /\ stack' = SetTop(f)
                /\ ret' = Ok("emitInternal")
    /\ UNCHANGED <<events, internalEvents, isDestroyed, isReportingError,
                   logErrors, nextRid, budget, console, fired, called, unsubs, waits>>

\* catch (e): this.#emitInternal('#listener-error', e, event, ...args)
EmitCatch ==
    /\ Top.op = "emit" /\ Top.pc = "run" /\ ret.st = "throw"
    /\ stack' = Append(SetTop([Top EXCEPT
                          !.pc = "catch", !.threw = @ + 1,
                          !.expect = @ \o [j \in 1..Len(internalEvents[LERR]) |->
                                             <<internalEvents[LERR][j],
                                               <<ret.err, Top.ev, Top.arg>>>>]]),
                       EIFrame(LERR, <<ret.err, Top.ev, Top.arg>>, "", NoUnsub))
    /\ ret' = None
    /\ UNCHANGED <<events, internalEvents, isDestroyed, isReportingError,
                   logErrors, nextRid, budget, console, fired, called, unsubs, waits>>

\* if (this.logErrors) console.error(...)
EmitLog ==
    /\ Top.op = "emit" /\ Top.pc = "catch" /\ ret.st = "ok"
    /\ stack' = SetTop([Top EXCEPT !.pc = "run"])
    /\ console' = IF logErrors THEN console + 1 ELSE console
    /\ ret' = None
    /\ UNCHANGED <<events, internalEvents, isDestroyed, isReportingError,
                   logErrors, nextRid, budget, fired, called, unsubs, waits>>

\* the loop is over
EmitDone ==
    /\ Top.op = "emit" /\ Top.pc = "run" /\ Returned
    /\ Top.i > Len(EmitQueue(Top))
    /\ stack' = Pop
    /\ ret' = Ok("emit")
    /\ UNCHANGED <<events, internalEvents, isDestroyed, isReportingError,
                   logErrors, nextRid, budget, console, fired, called, unsubs, waits>>

\* -------------------------------------------------- EventEmitterLite.once
\* the wrapper without this.removeListener(event, wrapper)
WrapperRemoveSkipped ==
    /\ Top.op = "wrapper" /\ Top.pc = "remove"
    /\ stack' = SetTop([Top EXCEPT !.pc = "apply"])
    /\ ret' = Ok("removeListener")
    /\ UNCHANGED <<events, internalEvents, isDestroyed, isReportingError,
                   logErrors, nextRid, budget, console, fired, called, unsubs,
                   waits>>

\* the wrapper: this.removeListener(event, wrapper)
WrapperRemove ==
    /\ Top.op = "wrapper" /\ Top.pc = "remove"
    /\ DoRemoveListener(SetTop([Top EXCEPT !.pc = "apply"]), Top.ev,
                        Id(Top.ent), "removeListener")
    /\ UNCHANGED <<internalEvents, isDestroyed, isReportingError, logErrors,
                   nextRid, budget, console, fired, called, unsubs, waits>>

\* the wrapper: listener.apply(this, args)
WrapperApply ==
    /\ Top.op = "wrapper" /\ Top.pc = "apply" /\ ret.st = "ok"
    /\ stack' = Append(SetTop([Top EXCEPT !.pc = "applied"]),
                       [Frame("listener") EXCEPT
                           !.ent = Entry("fn", Top.ent.fn, 0, Top.ent.rid),
                           !.ev = Top.ev, !.arg = Top.arg])
    /\ fired' = Append(fired, Top.ent.rid)
    /\ ret' = None
    /\ UNCHANGED <<events, internalEvents, isDestroyed, isReportingError,
                   logErrors, nextRid, budget, console, unsubs, called, waits>>

\* the wrapper returns what the listener returned or threw
WrapperReturn ==
    /\ Top.op = "wrapper" /\ Top.pc = "applied" /\ ret.st # "none"
    /\ stack' = Pop
    /\ ret' = [ret EXCEPT !.from = "wrapper"]
    /\ UNCHANGED <<events, internalEvents, isDestroyed, isReportingError,
                   logErrors, nextRid, budget, console, fired, called, unsubs, waits>>

\* ------------------------------------------------ EventEmitter.#emitInternal
\* The stack stk, its top the dispatch emit's catch started, with the
\* invocation of cb noted in the frame of that emit.
Delivered(stk, cb, pl) ==
    LET n == Len(stk) - 1
    IN  IF n >= 1 /\ stk[n].op = "emit" /\ stk[n].pc = "catch"
        THEN [stk EXCEPT ![n].deliv = Append(@, <<cb, pl>>)]
        ELSE stk

\* fn.apply(this, args)
InternalInvoke ==
    /\ Top.op = "emitInternal" /\ Top.pc = "run" /\ Returned
    /\ Top.i <= Len(Top.fns)
    /\ stack' = Append(Delivered(SetTop([Top EXCEPT !.i = @ + 1]),
                                 Top.fns[Top.i], Top.pl),
                       [Frame("callback") EXCEPT
                           !.ent = Entry("cb", Top.fns[Top.i], 0, 0),
                           !.ev = Top.ev, !.pl = Top.pl])
    /\ ret' = None
    /\ UNCHANGED <<events, internalEvents, isDestroyed, isReportingError,
                   logErrors, nextRid, budget, console, fired, called, unsubs, waits>>

\* catch (e) that reports the failure of every callback, whatever the channel
InternalSwallowRoutes ==
    /\ Top.op = "emitInternal" /\ Top.pc = "run" /\ ret.st = "throw"
    /\ Top.ev = LERR \/ isReportingError
    /\ stack' = Append(stack,
                       EIFrame(LERR, <<ret.err, Top.ev>> \o Top.pl, "", NoUnsub))
    /\ ret' = None
    /\ UNCHANGED <<events, internalEvents, isDestroyed, isReportingError,
                   logErrors, nextRid, budget, console, fired, called, unsubs,
                   waits>>

\* catch (e) of a '#listener-error' callback, or while an error is reported
InternalSwallow ==
    /\ Top.op = "emitInternal" /\ Top.pc = "run" /\ ret.st = "throw"
    /\ Top.ev = LERR \/ isReportingError
    /\ console' = IF logErrors THEN console + 1 ELSE console
    /\ ret' = None
    /\ UNCHANGED <<events, internalEvents, isDestroyed, isReportingError,
                   logErrors, stack, nextRid, budget, fired, called, unsubs, waits>>

\* the failure reported without the name of the channel: (e, ...args)
InternalReportNoChannel ==
    /\ Top.op = "emitInternal" /\ Top.pc = "run" /\ ret.st = "throw"
    /\ ~(Top.ev = LERR \/ isReportingError)
    /\ isReportingError' = TRUE
    /\ stack' = Append(SetTop([Top EXCEPT !.pc = "finally"]),
                       EIFrame(LERR, <<ret.err>> \o Top.pl, "", NoUnsub))
    /\ ret' = None
    /\ UNCHANGED <<events, internalEvents, isDestroyed, logErrors, nextRid,
                   budget, console, fired, called, unsubs, waits>>

\* #emitInternal without try / catch: the failure of a callback leaves it
InternalRethrow ==
    /\ Top.op = "emitInternal" /\ Top.pc = "run" /\ ret.st = "throw"
    /\ ~(Top.ev = LERR \/ isReportingError)
    /\ stack' = Pop
    /\ ret' = Thrown(ret.err, IF Top.tail = "" THEN "emitInternal" ELSE Top.tail)
    /\ UNCHANGED <<events, internalEvents, isDestroyed, isReportingError,
                   logErrors, nextRid, budget, console, fired, called, unsubs,
                   waits>>

\* catch (e) otherwise: the failure goes to '#listener-error'
InternalReport ==
    /\ Top.op = "emitInternal" /\ Top.pc = "run" /\ ret.st = "throw"
    /\ ~(Top.ev = LERR \/ isReportingError)
    /\ isReportingError' = TRUE
    /\ stack' = Append(SetTop([Top EXCEPT !.pc = "finally"]),
                       EIFrame(LERR, <<ret.err, Top.ev>> \o Top.pl, "", NoUnsub))
    /\ ret' = None
    /\ UNCHANGED <<events, internalEvents, isDestroyed, logErrors, nextRid,
                   budget, console, fired, called, unsubs, waits>>

\* the report without `finally { this.#isReportingError = false }`
InternalFinallyKeepsFlag ==
    /\ Top.op = "emitInternal" /\ Top.pc = "finally" /\ ret.st = "ok"
    /\ stack' = SetTop([Top EXCEPT !.pc = "run"])
    /\ ret' = None
    /\ UNCHANGED <<events, internalEvents, isDestroyed, isReportingError,
                   logErrors, nextRid, budget, console, fired, called, unsubs,
                   waits>>

\* finally: this.#isReportingError = false
InternalFinally ==
    /\ Top.op = "emitInternal" /\ Top.pc = "finally" /\ ret.st = "ok"
    /\ isReportingError' = FALSE
    /\ stack' = SetTop([Top EXCEPT !.pc = "run"])
    /\ ret' = None
    /\ UNCHANGED <<events, internalEvents, isDestroyed, logErrors, nextRid,
                   budget, console, fired, called, unsubs, waits>>

\* the loop is over (at once when there is no callback)
InternalDone ==
    /\ Top.op = "emitInternal" /\ Top.pc = "run" /\ Returned
    /\ Top.i > Len(Top.fns)
    /\ stack' = Pop
    /\ ret' = Ok(IF Top.tail = "" THEN "emitInternal" ELSE Top.tail)
    /\ unsubs' = unsubs \cup ({Top.unsub} \ {NoUnsub})
    /\ UNCHANGED <<events, internalEvents, isDestroyed, isReportingError,
                   logErrors, nextRid, budget, console, fired, called, waits>>

\* ------------------------------------------------------- clear and destroy
\* eventNames.forEach(event => this.clearEventListeners(event))
ClearStep ==
    /\ Top.op = "clear" /\ Returned
    /\ Top.i <= Len(Top.names)
    /\ DoClearEventListeners(SetTop([Top EXCEPT !.i = @ + 1]),
                             Top.names[Top.i], "clearEventListeners")
    /\ UNCHANGED <<internalEvents, isDestroyed, isReportingError, logErrors,
                   nextRid, budget, console, fired, called, unsubs, waits>>

ClearDone ==
    /\ Top.op = "clear" /\ Returned
    /\ Top.i > Len(Top.names)
    /\ stack' = Pop
    /\ ret' = Ok("clear")
    /\ UNCHANGED <<events, internalEvents, isDestroyed, isReportingError,
                   logErrors, nextRid, budget, console, fired, called, unsubs, waits>>

\* destroy() that sets the flag and forgets the meta channels
DestroyFinishKeepsMeta ==
    /\ Top.op = "destroy" /\ ret.st = "ok"
    /\ isDestroyed' = TRUE
    /\ events' = <<>>
    /\ stack' = Pop
    /\ ret' = Ok("destroy")
    /\ UNCHANGED <<internalEvents, isReportingError, logErrors, nextRid, budget,
                   console, fired, called, unsubs, waits>>

\* destroy() after its clear(): the flag, the meta channels, the registry
DestroyFinish ==
    /\ Top.op = "destroy" /\ ret.st = "ok"
    /\ isDestroyed' = TRUE
    /\ internalEvents' = EmptyInternal
    /\ events' = <<>>
    /\ stack' = Pop
    /\ ret' = Ok("destroy")
    /\ UNCHANGED <<isReportingError, logErrors, nextRid, budget, console, fired, called,
                   unsubs, waits>>

\* ------------------------------------------- waitForEvent / waitForAnyEvent
\* A wait: timed is max_wait_ms > 0; timer is "none" before setTimeout, then
\* "pending", "cleared" or "fired"; res is the promise ("pending", "true",
\* "false", "rejected"); subs are the events of the unsubscribers pushed.
Wait(timed) ==
    [timed |-> timed, timer |-> "none", res |-> "pending", subs |-> <<>>]

\* waitForAnyEvent without `if (this.#isDestroyed) throw`
DoWaitForAnyEventUnguarded(evs, timed, from) ==
    /\ waits' = Append(waits, Wait(timed))
    /\ stack' = Push([Frame("waitFor") EXCEPT
                         !.names = Unique(evs), !.tail = from,
                         !.ent = Entry("wait", "", Len(waits) + 1, 0)])
    /\ ret' = None

\* waitForAnyEvent(evs, max_wait_ms): the check, then the executor starts
DoWaitForAnyEvent(evs, timed, from) ==
    IF isDestroyed
    THEN /\ ret' = AtOnce(Thrown(DESTROYED, from))
         /\ UNCHANGED <<stack, waits>>
    ELSE /\ waits' = Append(waits, Wait(timed))
         /\ stack' = Push([Frame("waitFor") EXCEPT
                              !.names = Unique(evs), !.tail = from,
                              !.ent = Entry("wait", "", Len(waits) + 1, 0)])
         /\ ret' = None

CallWaitForAnyEvent(evs, timed) ==
    /\ CanCall
    /\ Called
    /\ DoWaitForAnyEvent(evs, timed, "waitForAnyEvent")
    /\ UNCHANGED <<events, internalEvents, isDestroyed, isReportingError,
                   logErrors, nextRid, console, fired, called, unsubs>>

\* waitForEvent(e, max_wait_ms) is waitForAnyEvent([e], max_wait_ms)
CallWaitForEvent(e, timed) ==
    /\ CanCall
    /\ Called
    /\ DoWaitForAnyEvent(<<e>>, timed, "waitForEvent")
    /\ UNCHANGED <<events, internalEvents, isDestroyed, isReportingError,
                   logErrors, nextRid, console, fired, called, unsubs>>

\* unsubscribers.push(...) of the on() that has returned
Pushed(f) ==
    IF f.i > 1
    THEN [waits EXCEPT ![f.ent.n].subs = Append(@, f.names[f.i - 1])]
    ELSE waits

\* uniqueEvents.forEach(event => unsubscribers.push(this.on(event, onEvent)))
WaitRegister ==
    /\ Top.op = "waitFor" /\ Returned
    /\ Top.i <= Len(Top.names)
    /\ waits' = Pushed(Top)
    /\ DoOn(SetTop([Top EXCEPT !.i = @ + 1]), Top.names[Top.i],
            Entry("wait", "", Top.ent.n, nextRid), "on", NoUnsub)
    /\ UNCHANGED <<internalEvents, isDestroyed, isReportingError, logErrors,
                   budget, console, fired, called>>

\* this.on threw inside the executor: the promise is rejected
WaitReject ==
    /\ Top.op = "waitFor" /\ ret.st = "throw"
    /\ waits' = [waits EXCEPT ![Top.ent.n].res =
                    IF @ = "pending" THEN "rejected" ELSE @]
    /\ stack' = Pop
    /\ ret' = Ok(Top.tail)
    /\ UNCHANGED <<events, internalEvents, isDestroyed, isReportingError,
                   logErrors, nextRid, budget, console, fired, called, unsubs>>

\* setTimeout whatever max_wait_ms is
WaitArmAlways ==
    /\ Top.op = "waitFor" /\ Returned
    /\ Top.i > Len(Top.names)
    /\ waits' = [Pushed(Top) EXCEPT ![Top.ent.n].timer = "pending"]
    /\ stack' = Pop
    /\ ret' = Ok(Top.tail)
    /\ UNCHANGED <<events, internalEvents, isDestroyed, isReportingError,
                   logErrors, nextRid, budget, console, fired, called, unsubs>>

\* if (max_wait_ms > 0) timeout = setTimeout(...); the promise is returned
WaitArm ==
    /\ Top.op = "waitFor" /\ Returned
    /\ Top.i > Len(Top.names)
    /\ waits' = [Pushed(Top) EXCEPT ![Top.ent.n].timer =
                    IF waits[Top.ent.n].timed THEN "pending" ELSE @]
    /\ stack' = Pop
    /\ ret' = Ok(Top.tail)
    /\ UNCHANGED <<events, internalEvents, isDestroyed, isReportingError,
                   logErrors, nextRid, budget, console, fired, called, unsubs>>

\* onEvent or the timer callback: cleanup() clears the timer, if it was set
ResolverCleanup ==
    /\ Top.op = "resolver" /\ Top.pc = "start"
    /\ waits' = [waits EXCEPT ![Top.ent.n].timer =
                    IF @ = "pending" THEN "cleared" ELSE @]
    /\ stack' = SetTop([Top EXCEPT !.pc = "unsub",
                                   !.names = waits[Top.ent.n].subs])
    /\ UNCHANGED <<events, internalEvents, isDestroyed, isReportingError,
                   logErrors, ret, nextRid, budget, console, fired, called, unsubs>>

\* cleanup() clearing the awaited events: this.clearEventListeners(event)
ResolverUnsubClears ==
    /\ Top.op = "resolver" /\ Top.pc = "unsub" /\ Returned
    /\ Top.i <= Len(Top.names)
    /\ DoClearEventListeners(SetTop([Top EXCEPT !.i = @ + 1]),
                             Top.names[Top.i], "unsub")
    /\ UNCHANGED <<internalEvents, isDestroyed, isReportingError, logErrors,
                   nextRid, budget, console, fired, called, unsubs, waits>>

\* cleanup(): unsubscribers.forEach(u => u())
ResolverUnsub ==
    /\ Top.op = "resolver" /\ Top.pc = "unsub" /\ Returned
    /\ Top.i <= Len(Top.names)
    /\ DoRemoveListener(SetTop([Top EXCEPT !.i = @ + 1]), Top.names[Top.i],
                        Id(Top.ent), "unsub")
    /\ UNCHANGED <<internalEvents, isDestroyed, isReportingError, logErrors,
                   nextRid, budget, console, fired, called, unsubs, waits>>

\* resolve(true) on both paths, the timer callback's too
ResolverResolveTrue ==
    /\ Top.op = "resolver" /\ Top.pc = "unsub" /\ Returned
    /\ Top.i > Len(Top.names)
    /\ waits' = [waits EXCEPT ![Top.ent.n].res =
                    IF @ = "pending" THEN "true" ELSE @]
    /\ stack' = Pop
    /\ ret' = Ok("resolver")
    /\ UNCHANGED <<events, internalEvents, isDestroyed, isReportingError,
                   logErrors, nextRid, budget, console, fired, called, unsubs>>

\* resolve(true) / resolve(false): a settled promise keeps its value
ResolverResolve ==
    /\ Top.op = "resolver" /\ Top.pc = "unsub" /\ Returned
    /\ Top.i > Len(Top.names)
    /\ waits' = [waits EXCEPT ![Top.ent.n].res =
                    IF @ = "pending" THEN Top.arg ELSE @]
    /\ stack' = Pop
    /\ ret' = Ok("resolver")
    /\ UNCHANGED <<events, internalEvents, isDestroyed, isReportingError,
                   logErrors, nextRid, budget, console, fired, called, unsubs>>

\* the timer of wait w fires: a task of its own, run when no code is running
TimerFire(w) ==
    /\ Top.op = "main" /\ ret.st = "none"
    /\ waits[w].timer = "pending"
    /\ waits' = [waits EXCEPT ![w].timer = "fired"]
    /\ stack' = Push([Frame("resolver") EXCEPT
                         !.ent = Entry("wait", "", w, 0), !.arg = "false",
                         !.pc = "start"])
    /\ UNCHANGED <<events, internalEvents, isDestroyed, isReportingError,
                   logErrors, ret, nextRid, budget, console, fired, called, unsubs>>

\* ------------------------------------------------------------ specification
UserCall ==
    \/ \E e \in Keys, fn \in Listeners : CallOn(e, fn)
    \/ \E e \in Keys, fn \in Listeners : CallOnce(e, fn)
    \/ \E e \in Keys, fn \in Listeners : CallOff(e, PlainId(fn))
    \/ \E e \in Keys : CallOff(e, NotAFunction)
    \/ \E u \in unsubs : CallUnsub(u)
    \/ \E e \in Keys, a \in Args : CallEmit(e, a)
    \/ \E e \in Keys : CallClearEventListeners(e)
    \/ CallClear
    \/ CallDestroy
    \/ \E ch \in Channels, cb \in Callbacks : CallOnInternal(ch, cb)
    \/ \E u \in unsubs : CallInternalUnsub(u)
    \/ \E b \in BOOLEAN : SetLogErrors(b)
    \/ \E evs \in WaitLists, t \in BOOLEAN : CallWaitForAnyEvent(evs, t)
    \/ \E e \in Keys, t \in BOOLEAN : CallWaitForEvent(e, t)

Step ==
    \/ BodyReturn \/ BodyThrow \/ BodyContinue
    \/ EmitInvoke \/ EmitCatch \/ EmitLog \/ EmitDone
    \/ WrapperRemove \/ WrapperApply \/ WrapperReturn
    \/ InternalInvoke \/ InternalSwallow \/ InternalReport
    \/ InternalFinally \/ InternalDone
    \/ ClearStep \/ ClearDone \/ DestroyFinish
    \/ WaitRegister \/ WaitReject \/ WaitArm
    \/ ResolverCleanup \/ ResolverUnsub \/ ResolverResolve
    \/ \E w \in 1..Len(waits) : TimerFire(w)

Next == UserCall \/ Step

Spec == Init /\ [][Next]_vars

\* The registry and emission alone: user code calls on, once, off,
\* unsubscribers and emit, more often.
MaxCoreCalls == 4

InitCore == Fresh(MaxCoreCalls)

NextCore ==
    \/ \E e \in Keys, fn \in Listeners : CallOn(e, fn)
    \/ \E e \in Keys, fn \in Listeners : CallOnce(e, fn)
    \/ \E e \in Keys, fn \in Listeners : CallOff(e, PlainId(fn))
    \/ \E u \in unsubs : CallUnsub(u)
    \/ \E e \in Keys : CallEmit(e, "x")
    \/ BodyReturn \/ BodyThrow \/ BodyContinue
    \/ EmitInvoke \/ EmitCatch \/ EmitLog \/ EmitDone
    \/ WrapperRemove \/ WrapperApply \/ WrapperReturn
    \/ InternalDone

SpecCore == InitCore /\ [][NextCore]_vars

\* Listener failures: user code subscribes to '#listener-error', registers
\* listeners of one event and emits it.
MaxErrCalls == 5

InitErr == Fresh(MaxErrCalls)

NextErr ==
    \/ \E fn \in Listeners : CallOn("a", fn)
    \/ \E a \in Args : CallEmit("a", a)
    \/ \E cb \in Callbacks : CallOnInternal(LERR, cb)
    \/ SetLogErrors(FALSE)
    \/ BodyReturn \/ BodyThrow \/ BodyContinue
    \/ EmitInvoke \/ EmitCatch \/ EmitLog \/ EmitDone
    \/ InternalInvoke \/ InternalSwallow \/ InternalDone

SpecErr == InitErr /\ [][NextErr]_vars

\* The lifecycle: user code registers, subscribes to the meta channels,
\* waits, emits and destroys; a body may let the error of a call escape.
MaxLifeCalls == 4

InitLife == Fresh(MaxLifeCalls)

NextLife ==
    \/ \E e \in Keys : CallOn(e, "L1")
    \/ CallOnce("a", "L2")
    \/ \E e \in Keys : CallEmit(e, "x")
    \/ CallDestroy
    \/ \E ch \in Channels : CallOnInternal(ch, "c1")
    \/ \E t \in BOOLEAN : CallWaitForAnyEvent(<<"a", "b">>, t)
    \/ Step
    \/ BodyPropagate

SpecLife == InitLife /\ [][NextLife]_vars

\* Removal with known arguments: user code registers one-time listeners of
\* "a", the plain listener L2 of "a" and L1 of "b", and calls off("a", L1)
\* and clearEventListeners("a").
MaxOffCalls == 4

InitOff == Fresh(MaxOffCalls)

NextOff ==
    \/ \E fn \in Listeners : CallOnce("a", fn)
    \/ CallOn("a", "L2")
    \/ CallOn("b", "L1")
    \/ CallOff("a", PlainId("L1"))
    \/ CallClearEventListeners("a")
    \/ CallEmit("a", "x")
    \/ CallOnInternal(NOL, "c1")
    \/ BodyReturn \/ BodyContinue
    \/ EmitInvoke \/ EmitDone
    \/ WrapperRemove \/ WrapperApply \/ WrapperReturn
    \/ InternalInvoke \/ InternalDone

SpecOff == InitOff /\ [][NextOff]_vars

\* clear() and destroy() with a '#no-listeners' callback that calls the
\* emitter back: user code registers L1, the callback c1, and calls clear(),
\* destroy() and clearEventListeners("b").
MaxClearCalls == 6

InitClear == Fresh(MaxClearCalls)

NextClear ==
    \/ \E e \in Keys : CallOn(e, "L1")
    \/ CallOnInternal(NOL, "c1")
    \/ CallClear
    \/ CallDestroy
    \/ CallClearEventListeners("b")
    \/ BodyReturn \/ BodyContinue
    \/ InternalInvoke \/ InternalDone
    \/ ClearStep \/ ClearDone \/ DestroyFinish

SpecClear == InitClear /\ [][NextClear]_vars

\* The meta channels: user code
\* subscribes the callbacks c1 and c2, unsubscribes them, and registers and
\* removes the listener L1 of "a", also from inside the callbacks.
MaxMetaCalls == 5

InitMeta == Fresh(MaxMetaCalls)

NextMeta ==
    \/ \E ch \in Channels, cb \in Callbacks : CallOnInternal(ch, cb)
    \/ \E u \in unsubs : CallInternalUnsub(u)
    \/ CallOn("a", "L1")
    \/ CallOff("a", PlainId("L1"))
    \/ BodyReturn \/ BodyContinue
    \/ InternalInvoke \/ InternalDone

SpecMeta == InitMeta /\ [][NextMeta]_vars

\* Removal that finds nothing: user code registers L2 for "a", by on and by
\* once, and calls off with L1, which is never registered, with something
\* that is no function, and for "b", which never has a listener.
MaxNoopCalls == 4

InitNoop == Fresh(MaxNoopCalls)

NextNoop ==
    \/ CallOn("a", "L2")
    \/ CallOnce("a", "L2")
    \/ CallOff("a", PlainId("L1"))
    \/ CallOff("a", NotAFunction)
    \/ CallOff("b", PlainId("L2"))
    \/ CallEmit("a", "x")
    \/ CallOnInternal(NOL, "c1")
    \/ BodyReturn \/ BodyContinue
    \/ EmitInvoke \/ EmitDone
    \/ WrapperRemove \/ WrapperApply \/ WrapperReturn
    \/ InternalInvoke \/ InternalDone

SpecNoop == InitNoop /\ [][NextNoop]_vars

\* Waits that lose their resolver: user code waits for "a" with a timer and
\* for "a" or "b" without one, registers a listener of "a",
\* subscribes to '#has-listeners', emits "a", and removes listeners with
\* clearEventListeners, clear and destroy.
MaxTimerCalls == 4

InitTimer == Fresh(MaxTimerCalls)

NextTimer ==
    \/ CallWaitForEvent("a", TRUE)
    \/ CallWaitForAnyEvent(<<"a", "b">>, FALSE)
    \/ CallOn("a", "L1")
    \/ CallOnInternal(HAS, "c1")
    \/ CallEmit("a", "x")
    \/ CallClearEventListeners("a")
    \/ CallClear
    \/ CallDestroy
    \/ BodyReturn \/ BodyContinue
    \/ EmitInvoke \/ EmitDone
    \/ InternalInvoke \/ InternalDone
    \/ ClearStep \/ ClearDone \/ DestroyFinish
    \/ WaitRegister \/ WaitReject \/ WaitArm
    \/ ResolverCleanup \/ ResolverUnsub \/ ResolverResolve
    \/ \E w \in 1..Len(waits) : TimerFire(w)

SpecTimer == InitTimer /\ [][NextTimer]_vars

\* Run to completion, and timers that fire: the code that is running goes on
\* until it returns (a user function makes the calls it makes, then returns),
\* and a pending timer fires once nothing is running.
FairTimer ==
    /\ SpecTimer
    /\ WF_vars(BodyReturn) /\ WF_vars(BodyContinue)
    /\ WF_vars(EmitInvoke) /\ WF_vars(EmitDone)
    /\ WF_vars(InternalInvoke) /\ WF_vars(InternalDone)
    /\ WF_vars(ClearStep) /\ WF_vars(ClearDone) /\ WF_vars(DestroyFinish)
    /\ WF_vars(WaitRegister) /\ WF_vars(WaitReject) /\ WF_vars(WaitArm)
    /\ WF_vars(ResolverCleanup) /\ WF_vars(ResolverUnsub)
    /\ WF_vars(ResolverResolve)
    /\ \A w \in 1..MaxTimerCalls :
          WF_vars(IF w <= Len(waits) THEN TimerFire(w) ELSE FALSE)

\* ==================================================================== claims
EmitFrames == {n \in 1..Len(stack) : stack[n].op = "emit"}

\* emit is about to return: its loop is over
EmitReturns ==
    /\ Top.op = "emit" /\ Top.pc = "run" /\ Returned
    /\ Top.i > Len(EmitQueue(Top))

IsPrefix(s, t) == Len(s) <= Len(t) /\ s = SubSeq(t, 1, Len(s))

Increasing(s) == \A j, k \in 1..Len(s) : j < k => s[j] < s[k]

\* C1: every key of the registry has at least one listener (and is there
\* once): a key goes in the step that removes its last listener.
C1_NoEmptyKey ==
    /\ \A j \in 1..Len(events) : Len(events[j].ls) > 0
    /\ \A j, k \in 1..Len(events) : j # k => events[j].key # events[k].key

\* a removal has just deleted the key of its event, others being registered
C1_Witness ==
    /\ Top.op = "emitInternal" /\ Top.ev = NOL /\ Top.tail \in {"off", "unsub"}
    /\ ~HasKey(events, Top.pl[1])
    /\ events # <<>>

\* C2: an emission invokes no registration made after it started; the
\* registrations there when it starts are all invoked, the older first.
C2_AddedListenerNextTime ==
    /\ \A n \in EmitFrames :
          \A k \in 1..Len(stack[n].invoked) : stack[n].invoked[k] < stack[n].ridAt
    /\ \A n \in EmitFrames : Increasing(stack[n].invoked)
    /\ EmitReturns =>
          \A k \in 1..Len(Top.atStart) :
             \E j \in 1..Len(Top.invoked) : Top.invoked[j] = Top.atStart[k].rid

\* a later emission has invoked, last, a listener added during an earlier one
C2_Witness ==
    /\ EmitReturns
    /\ Len(stack) = 2
    /\ Len(Top.atStart) = 2
    /\ Top.atStart[2].mid
    /\ Top.invoked = Rids(Top.atStart)

\* C3: whatever is removed meanwhile, an emission invokes the registrations
\* of its snapshot once each, in order and without a gap; it invokes none
\* that was removed before it started.
C3_RemovedListenerStillRuns ==
    /\ \A n \in EmitFrames :
          /\ IsPrefix(stack[n].invoked, Rids(stack[n].atStart))
          /\ \A k \in 1..Len(stack[n].invoked) :
                stack[n].invoked[k] \notin stack[n].goneAt
    /\ EmitReturns => Top.invoked = Rids(Top.atStart)

\* an emission of two listeners returns, the second removed during it
C3_Witness ==
    /\ EmitReturns
    /\ Len(Top.atStart) = 2
    /\ Top.atStart[2].kind = "fn"
    /\ Top.atStart[2].rid \notin AllRids(events)
    /\ Top.atStart[1].rid \in AllRids(events)
    /\ Top.invoked = Rids(Top.atStart)

\* C4: no error leaves emit or a dispatch to the meta channels, and emit
\* returns only after invoking every listener of its snapshot.
C4_ErrorsIsolated ==
    /\ ret.st = "throw" => ret.from \notin {"emit", "emitInternal"}
    /\ EmitReturns => Len(Top.invoked) = Len(Top.atStart)

\* emit returns after both of its listeners threw
C4_Witness ==
    /\ EmitReturns
    /\ Top.threw = 2
    /\ Len(Top.invoked) = 2

\* C5: the '#listener-error' callbacks are invoked, for each listener that
\* threw and in the order they threw, once each with (error, event, arg).
C5_ErrorsDelivered ==
    \A n \in EmitFrames :
       /\ IsPrefix(stack[n].deliv, stack[n].expect)
       /\ stack[n].pc = "run" => stack[n].deliv = stack[n].expect

\* with logErrors false, two listeners threw and a callback got both errors
C5_Witness ==
    /\ ~logErrors
    /\ EmitReturns
    /\ Top.threw = 2
    /\ Len(Top.deliv) = 2
    /\ Top.deliv[1][2][1] # Top.deliv[2][2][1]
    /\ console = 0

\* C6: the listener of a once-registration is run at most once.
C6_OnceAtMostOnce ==
    \A j, k \in 1..Len(fired) : j # k => fired[j] # fired[k]

\* the frame a step has pushed (when it pushed one)
NewFrame == stack'[Len(stack) + 1]

\* the step calls #emitInternal(ch, e)
Dispatched(ch, e) ==
    /\ Len(stack') = Len(stack) + 1
    /\ NewFrame.op = "emitInternal"
    /\ NewFrame.ev = ch
    /\ NewFrame.pl = <<e>>
    /\ NewFrame.fns = internalEvents[ch]

\* C7: on a live emitter a step calls #emitInternal('#has-listeners', e), once
\* and for the callbacks subscribed then, exactly when it registers a
\* listener of e and e had none.
C7_HasListenersOnFirst ==
    [][~isDestroyed =>
         \A e \in Keys :
            Dispatched(HAS, e) <=>
               Count(events', e) > Count(events, e) /\ Count(events, e) = 0]_vars

\* a '#has-listeners' callback runs for the event of a wait, its first listener
C7_Witness ==
    /\ Top.op = "callback" /\ Top.ev = HAS
    /\ Count(events, Top.pl[1]) = 1
    /\ Get(events, Top.pl[1])[1].kind = "wait"

CalledOp ==
    IF Len(stack') > Len(stack)
    THEN IF NewFrame.tail # "" THEN NewFrame.tail ELSE NewFrame.op
    ELSE ret'.from

\* C9: isDestroyed is false at first, set by destroy() only, set when
\* destroy() has returned and never reset; destroy() on a destroyed emitter
\* returns at once and changes nothing.
C9_DestroyedForGood ==
    /\ ~isDestroyed
    /\ [][/\ isDestroyed => isDestroyed'
          /\ ~isDestroyed /\ isDestroyed' => Top.op = "destroy"
          /\ ret' # ret /\ ret'.st = "ok" /\ ret'.from = "destroy" => isDestroyed'
          /\ isDestroyed /\ budget' # budget /\ CalledOp = "destroy" =>
                /\ ret' = AtOnce(Ok("destroy"))
                /\ UNCHANGED <<events, internalEvents, isDestroyed,
                               isReportingError, logErrors, stack, nextRid,
                               console, fired, unsubs, waits>>]_vars

\* destroy() has returned from a call made on a destroyed emitter
C9_Witness ==
    /\ isDestroyed
    /\ ret.st = "ok" /\ ret.from = "destroy" /\ ret.dead

Subscribing ==
    {"on", "once", "onHasEventListeners", "onNoEventListeners",
     "onListenerError", "waitForEvent", "waitForAnyEvent"}

\* C10: on a destroyed emitter a call of a subscribing operation throws the
\* destroyed-state error at once and leaves the registry, the meta channels
\* and the waits as they are.
C10_DestroyedThrows ==
    [][isDestroyed /\ budget' # budget /\ CalledOp \in Subscribing =>
         /\ ret' = AtOnce(Thrown(DESTROYED, CalledOp))
         /\ UNCHANGED <<events, internalEvents, isDestroyed, stack, nextRid,
                        unsubs, waits>>]_vars

\* waitForAnyEvent has thrown on a destroyed emitter
C10_Witness ==
    /\ isDestroyed
    /\ ret.st = "throw" /\ ret.err = DESTROYED /\ ret.dead
    /\ ret.from = "waitForAnyEvent"
    /\ events = <<>> /\ internalEvents = EmptyInternal /\ waits = <<>>

\* the operations that degrade to no-ops on a destroyed emitter
Silent ==
    {"emit", "off", "unsub", "internalUnsub", "clearEventListeners", "clear"}

\* C11: on a destroyed emitter a call of emit, off, clearEventListeners,
\* clear or an unsubscriber returns normally at once, runs nothing and
\* changes nothing.
C11_DestroyedNoOps ==
    [][isDestroyed /\ budget' # budget /\ CalledOp \in Silent =>
         /\ ret' = AtOnce(Ok(CalledOp))
         /\ UNCHANGED <<events, internalEvents, isDestroyed, isReportingError,
                        logErrors, stack, nextRid, console, fired, unsubs,
                        waits>>]_vars

\* the unsubscriber of a meta-channel callback has returned from a call made
\* on a destroyed emitter
C11_Witness ==
    /\ isDestroyed
    /\ ret.st = "ok" /\ ret.from = "internalUnsub" /\ ret.dead

\* the step invokes a registered listener (the wrapper of once() included)
ListenerInvoked ==
    /\ Len(stack') = Len(stack) + 1
    /\ NewFrame.op \in {"listener", "wrapper"}

\* C12: on a destroyed emitter no listener is invoked, the listeners left
\* in the copy of an emission in progress included.
C12_NoListenerWhenDestroyed ==
    [][isDestroyed => ~ListenerInvoked]_vars

\* the step starts a path of wait w: onEvent is invoked, or its timer fires
PathStarts(w) ==
    /\ Len(stack') = Len(stack) + 1
    /\ NewFrame.op = "resolver"
    /\ NewFrame.ent.n = w

\* C13: the promise of a wait is settled once and keeps its value, and once
\* it is resolved neither onEvent nor the timer callback of that wait runs.
C13_WaitResolvedOnce ==
    [][\A w \in 1..Len(waits) :
          /\ waits[w].res # "pending" => waits'[w].res = waits[w].res
          /\ waits[w].res \in {"true", "false"} => ~PathStarts(w)]_vars

\* the registrations of the resolver of wait w
Resolvers(w) ==
    {l \in UNION {{events[j].ls[k] : k \in 1..Len(events[j].ls)} :
                     j \in 1..Len(events)} : l.kind = "wait" /\ l.n = w}

\* C14: once the promise of a wait is resolved, its resolver is registered
\* on no event and its timer is not pending.
C14_NoLingeringAfterResolve ==
    \A w \in 1..Len(waits) :
       waits[w].res \in {"true", "false"} =>
          /\ Resolvers(w) = {}
          /\ waits[w].timer # "pending"

\* the step calls the unsubscriber of registration r
UnsubCalled(r) == called' = Append(called, r)

\* C15: a second or later call of the unsubscriber of a registration changes
\* no listener sequence and dispatches no notification.
C15_UnsubscriberIdempotent ==
    [][\A r \in 1..(nextRid - 1) :
          UnsubCalled(r) /\ (\E j \in 1..Len(called) : called[j] = r) =>
             events' = events /\ stack' = stack]_vars

\* this.events[e] || []
ListOf(evs, e) == IF HasKey(evs, e) THEN Get(evs, e) ELSE <<>>

\* the callables of a listener sequence, in its order
IdsOf(ls) == [j \in 1..Len(ls) |-> Id(ls[j])]

\* C16: calling the unsubscriber of a registration takes that registration
\* out of the listeners of its event (when it is still there) and leaves the
\* other registrations, of this and of every other event, in their order.
C16_UnsubscriberRemovesItsOwn ==
    [][\A u \in unsubs :
          ~u.meta /\ UnsubCalled(u.rid) =>
             /\ IdsOf(ListOf(events', u.ev)) =
                   IdsOf(SelectSeq(ListOf(events, u.ev),
                                   LAMBDA l : l.rid # u.rid))
             /\ \A e \in Keys \ {u.ev} :
                   ListOf(events', e) = ListOf(events, e)]_vars

\* the step calls off (under SpecOff: off("a", L1))
OffCalled == budget' # budget /\ CalledOp = "off"

\* the positions of the listeners of "a" that are L1 or wrap it
RegisteredL1 ==
    {j \in 1..Len(ListOf(events, "a")) : ListOf(events, "a")[j].fn = "L1"}

\* C17: when L1 is registered for "a" by one once() and not otherwise,
\* off("a", L1) removes that registration: nothing registered for "a" is L1
\* or wraps it, so no later emit runs it; the other listeners of "a" stay as
\* they are, and when there is none the key goes and '#no-listeners' is
\* dispatched for "a".
C17_OffRemovesOnce ==
    [][OffCalled /\ ~isDestroyed /\ Cardinality(RegisteredL1) = 1 =>
         LET ls == ListOf(events, "a")
             j == CHOOSE k \in RegisteredL1 : TRUE
         IN  /\ ls[j].kind = "once"
             /\ ListOf(events', "a") = Splice(ls, j)
             /\ \A k \in 1..Len(ListOf(events', "a")) :
                   ListOf(events', "a")[k].fn # "L1"
             /\ ListOf(events', "b") = ListOf(events, "b")
             /\ IF Len(ls) = 1
                THEN ~HasKey(events', "a") /\ Dispatched(NOL, "a")
                ELSE HasKey(events', "a") /\ stack' = stack]_vars

\* off("a", L1) has removed the only listener of "a", a one-time L1, and
\* '#no-listeners' is being dispatched to a callback
C17_Witness ==
    /\ Top.op = "emitInternal" /\ Top.ev = NOL /\ Top.tail = "off"
    /\ Top.pl = <<"a">>
    /\ Len(Top.fns) = 1
    /\ ~HasKey(events, "a")
    /\ fired = <<>>

\* C18: the listeners of an event are kept in the order they were registered
\* and emit invokes its copy of them in that order, one invocation per
\* registration; off takes out one registration at most, the first of its
\* callable, and leaves the others in their order.
C18_InsertionOrder ==
    /\ [](/\ \A j \in 1..Len(events) : Increasing(Rids(events[j].ls))
          /\ \A n \in EmitFrames :
                /\ stack[n].atStart = stack[n].queue
                /\ Increasing(Rids(stack[n].atStart))
                /\ Len(stack[n].invoked) = stack[n].i - 1
                /\ \A k \in 1..Len(stack[n].invoked) :
                      stack[n].invoked[k] = stack[n].atStart[k].rid)
    /\ [][OffCalled /\ events' # events =>
             \E e \in Keys :
                LET ls == ListOf(events, e)
                IN  /\ \E j \in 1..Len(ls) :
                          /\ ListOf(events', e) = Splice(ls, j)
                          /\ \A k \in 1..(j - 1) : ls[k].fn # ls[j].fn
                    /\ \A o \in Keys \ {e} :
                          ListOf(events', o) = ListOf(events, o)]_vars

\* emit returns after invoking a callable twice, once for each of its two
\* registrations
C18_Witness ==
    /\ EmitReturns
    /\ Len(Top.atStart) = 2
    /\ Id(Top.atStart[1]) = Id(Top.atStart[2])
    /\ Top.invoked = Rids(Top.atStart)

C20_ClearEventListeners ==
    [][~isDestroyed /\ budget' # budget /\ CalledOp = "clearEventListeners" =>
         /\ ~HasKey(events', "a")
         /\ ListOf(events', "b") = ListOf(events, "b")
         /\ IF Count(events, "a") > 0
            THEN Dispatched(NOL, "a")
            ELSE stack' = stack /\ events' = events]_vars

\* a '#no-listeners' callback runs, once, after clearEventListeners("a")
\* removed the two listeners of "a"
C20_Witness ==
    /\ Top.op = "callback" /\ Top.ev = NOL /\ Top.pl = <<"a">>
    /\ stack[Len(stack) - 1].tail = "clearEventListeners"
    /\ Len(stack[Len(stack) - 1].fns) = 1
    /\ nextRid = 3
    /\ events = <<>>

\* clear() returns: the frame of clear is popped
ClearReturns == Top.op = "clear" /\ stack' = Pop

\* C21 as stated: when clear() returns on a live emitter, the registry has no
\* event key.
C21_ClearLeavesNothing ==
    ret.st = "ok" /\ ret.from = "clear" /\ ~isDestroyed => events = <<>>

\* C21 amended: when clear() returns, no registration made before clear() was
\* called is still in the registry; what is registered then was registered
\* during the clear, by a '#no-listeners' callback.
C21_ClearRemovesEarlier ==
    [][ClearReturns => \A r \in AllRids(events') : r >= Top.ridAt]_vars

\* clear() has returned on a live emitter whose registry holds a listener
C21_Witness ==
    /\ ret.st = "ok" /\ ret.from = "clear" /\ ~ret.dead /\ ~isDestroyed
    /\ events # <<>>
    /\ nextRid > 2

\* the number of times e occurs in the sequence s
Occurrences(s, e) == Cardinality({j \in 1..Len(s) : s[j] = e})

\* clear() calls clearEventListeners for the next of its event keys
ClearVisits ==
    /\ Top.op = "clear" /\ Top.i <= Len(Top.names)
    /\ Len(stack') >= Len(stack)
    /\ stack'[Len(stack)].op = "clear"
    /\ stack'[Len(stack)].i = Top.i + 1

\* C22 as stated: between the call of clear() and its return '#no-listeners'
\* is dispatched exactly once for each event key that had listeners when
\* clear() was called.
C22_ClearNotifiesOnce ==
    [][ClearReturns =>
          \A j \in 1..Len(Top.names) :
              Occurrences(Top.invoked, Top.names[j]) = 1]_vars

\* C22 amended: clear() visits the event keys it read when it was called, and
\* dispatches '#no-listeners' for a key exactly when the key still has
\* listeners and the emitter is live; every such key is notified at least once
\* before clear() returns.
C22_ClearNotifies ==
    /\ [][ClearVisits =>
             LET e == Top.names[Top.i]
             IN  IF ~isDestroyed /\ Count(events, e) > 0
                 THEN Dispatched(NOL, e) /\ ~HasKey(events', e)
                 ELSE Len(stack') = Len(stack) /\ events' = events]_vars
    /\ [][ClearReturns =>
             \A j \in 1..Len(Top.names) :
                 Occurrences(Top.invoked, Top.names[j]) >= 1]_vars

\* clear() is about to return and one of its event keys was notified twice
C22_Witness ==
    /\ Top.op = "clear" /\ Top.i > Len(Top.names) /\ Returned
    /\ \E j \in 1..Len(Top.names) : Occurrences(Top.invoked, Top.names[j]) = 2

\* destroy() is called on a live emitter
DestroyCalled == budget' # budget /\ CalledOp = "destroy" /\ ~isDestroyed

\* the clear() that destroy() called returns
DestroyClearReturns ==
    /\ ClearReturns
    /\ Len(stack) >= 2 /\ stack[Len(stack) - 1].op = "destroy"

\* destroy() starts on its clear() without touching the flag or the registries
DestroyStartsWithClear ==
    DestroyCalled =>
        /\ Len(stack') = Len(stack) + 2
        /\ stack'[Len(stack) + 2].op = "clear"
        /\ stack'[Len(stack) + 2].names = [j \in 1..Len(events) |-> events[j].key]
        /\ UNCHANGED <<isDestroyed, internalEvents, events>>

\* the flag is set, and the registries are wiped, when that clear() has returned
FlagAfterClear ==
    ~isDestroyed /\ isDestroyed' =>
        /\ Top.op = "destroy" /\ ret.st = "ok" /\ ret.from = "clear"
        /\ internalEvents' = EmptyInternal
        /\ events' = <<>>

\* the clear() of destroy() visits a key: the callbacks subscribed then are
\* notified when the key still has listeners and the emitter is live
DestroyClearVisits ==
    ClearVisits /\ Len(stack) >= 2 /\ stack[Len(stack) - 1].op = "destroy" =>
        LET e == Top.names[Top.i]
        IN  IF ~isDestroyed /\ Count(events, e) > 0
            THEN Dispatched(NOL, e) /\ ~HasKey(events', e)
            ELSE Len(stack') = Len(stack) /\ events' = events

C24_DestroyedIsEmpty ==
    isDestroyed => events = <<>> /\ internalEvents = EmptyInternal

\* the emitter is destroyed while an operation that was running when
\* destroy() was called is still in progress
C24_Witness ==
    /\ isDestroyed
    /\ \E n \in 1..Len(stack) :
          stack[n].op \in {"emit", "emitInternal", "clear", "waitFor"}

\* the waits made with max_wait_ms <= 0
Untimed == {w \in 1..Len(waits) : ~waits[w].timed}

\* onEvent of wait w, invoked by an emit, resolves the promise
ResolvedByEmit(w) ==
    /\ Top.op = "resolver" /\ Top.ent.n = w /\ Top.arg = "true"
    /\ Len(stack) >= 2 /\ stack[Len(stack) - 1].op = "emit"
    /\ stack' = Pop

\* C25 as stated: a wait with max_wait_ms <= 0 has no timer, and its promise
\* is never false: it is pending until the emission of an awaited event
\* resolves it true.
C25_UntimedPendingUntilEmit ==
    /\ [](\A w \in Untimed :
             waits[w].timer = "none" /\ waits[w].res \in {"pending", "true"})
    /\ [][\A w \in Untimed :
             waits'[w].res # waits[w].res =>
                waits[w].res = "pending" /\ ResolvedByEmit(w)]_vars

\* C25 amended: the promise can also be rejected, when the emitter is
\* destroyed while the wait registers its events (on throws in the executor).
C25_UntimedNeverFalse ==
    /\ [](\A w \in Untimed :
             /\ waits[w].timer = "none"
             /\ waits[w].res \in {"pending", "true", "rejected"})
    /\ [][\A w \in Untimed :
             waits'[w].res # waits[w].res =>
                /\ waits[w].res = "pending"
                /\ IF waits'[w].res = "true"
                   THEN ResolvedByEmit(w)
                   ELSE /\ Top.op = "waitFor" /\ Top.ent.n = w
                        /\ isDestroyed
                        /\ ret.st = "throw" /\ ret.err = DESTROYED]_vars

\* the promise of a wait without a timer is resolved true
C25_Witness ==
    \E w \in Untimed : waits[w].res = "true" /\ waits[w].subs # <<>>

\* the functions of user code: what they throw is theirs
Bodies == {"listener", "callback", "wrapper"}

\* C26: an exception thrown by a '#has-listeners', '#no-listeners' or
\* '#listener-error' callback is caught by the dispatch that invoked it, which
\* goes on with the callbacks that remain and returns when all of its
\* callbacks were invoked; a public operation throws nothing but the
\* destroyed-state error of its guard.
C26_CallbackErrorsContained ==
    /\ [](ret.st = "throw" /\ ret.from \notin Bodies =>
             ret.err = DESTROYED /\ ret.dead /\ isDestroyed)
    /\ [][/\ ret.st = "throw" /\ ret.from = "callback" =>
                /\ Top.op = "emitInternal"
                /\ ret'.st = "none"
                /\ Len(stack') >= Len(stack)
                /\ stack'[Len(stack)].op = "emitInternal"
                /\ stack'[Len(stack)].i = Top.i
                /\ stack'[Len(stack)].fns = Top.fns
          /\ Top.op = "emitInternal" /\ Len(stack') < Len(stack) =>
                Top.i > Len(Top.fns) /\ ret'.st = "ok"
          /\ Top.op = "emitInternal" /\ Len(stack') > Len(stack)
                /\ NewFrame.op = "callback" =>
                /\ NewFrame.ent.fn = Top.fns[Top.i]
                /\ stack'[Len(stack)].i = Top.i + 1]_vars

\* a '#has-listeners' or '#no-listeners' callback has thrown and the dispatch
\* has callbacks left
C26_Witness ==
    /\ ret.st = "throw" /\ ret.from = "callback"
    /\ Top.op = "emitInternal" /\ Top.ev \in {HAS, NOL}
    /\ Top.i <= Len(Top.fns)
    /\ ~isDestroyed

\* C27: destroy() invokes no '#has-listeners' callback, no '#no-listeners'
\* callback and no listener: no dispatch made by the clear() of a destroy()
\* invokes a function of user code.
C27_DestroyInvokesNothing ==
    \A n \in 1..Len(stack) :
       /\ n + 3 <= Len(stack)
       /\ stack[n].op = "destroy"
       /\ stack[n + 1].op = "clear"
       /\ stack[n + 2].op = "emitInternal"
       => stack[n + 3].op \notin {"callback", "listener"}

\* a callback of channel ch has thrown into the dispatch that invoked it
CallbackThrew(ch) ==
    /\ ret.st = "throw" /\ ret.from = "callback"
    /\ Top.op = "emitInternal" /\ Top.ev = ch

\* the step calls #emitInternal('#listener-error', error, channel, event)
Routed ==
    /\ Len(stack') = Len(stack) + 1
    /\ NewFrame.op = "emitInternal"
    /\ NewFrame.ev = LERR
    /\ NewFrame.pl = <<ret.err, Top.ev>> \o Top.pl
    /\ NewFrame.fns = internalEvents[LERR]

\* the step only logs the failure
OnlyLogged ==
    /\ stack' = stack
    /\ console' = IF logErrors THEN console + 1 ELSE console

\* C28 as stated: every failure of a '#has-listeners' or '#no-listeners'
\* callback is handed to the '#listener-error' callbacks registered then, as
\* (error, channel, event); only the failures of '#listener-error' callbacks
\* are not.
C28_MetaFailuresAllRouted ==
    [][/\ CallbackThrew(HAS) \/ CallbackThrew(NOL) => Routed
       /\ CallbackThrew(LERR) => OnlyLogged]_vars

\* C28 amended: a failure of a '#has-listeners' or '#no-listeners' callback is
\* handed to the '#listener-error' callbacks unless the failure of another
\* such callback is being reported (#isReportingError): then it is only
\* logged, as the failures of '#listener-error' callbacks are.
C28_MetaFailuresRouted ==
    [][/\ (CallbackThrew(HAS) \/ CallbackThrew(NOL)) /\ ~isReportingError =>
             Routed
       /\ (CallbackThrew(HAS) \/ CallbackThrew(NOL)) /\ isReportingError =>
             OnlyLogged
       /\ CallbackThrew(LERR) => OnlyLogged]_vars

\* a '#listener-error' callback runs with the failure of a '#has-listeners'
\* or '#no-listeners' callback: (error, channel, event)
C28_Witness ==
    /\ Top.op = "callback" /\ Top.ev = LERR
    /\ Len(Top.pl) = 3 /\ Top.pl[2] \in {HAS, NOL} /\ Top.pl[3] \in Keys
    /\ isReportingError

\* the dispatch of '#listener-error' that the catch of an emit started
ReportOfEmit ==
    /\ Top.op = "emitInternal" /\ Top.ev = LERR
    /\ Len(stack) >= 2
    /\ stack[Len(stack) - 1].op = "emit" /\ stack[Len(stack) - 1].pc = "catch"

\* C29: the failure of a '#listener-error' callback starts no dispatch: the
\* dispatch it is in goes on with the next callback; when the dispatch for a
\* failing listener returns, each of its callbacks was invoked once, in order,
\* with that failure, and the emit goes on and returns.
C29_ErrorCallbackFailureStops ==
    /\ [](ret.st # "none" /\ ret.from = "emit" => ret.st = "ok")
    /\ [][/\ CallbackThrew(LERR) =>
                /\ stack' = stack
                /\ ret'.st = "none"
                /\ UNCHANGED <<events, internalEvents, isReportingError>>
          /\ ReportOfEmit /\ Len(stack') < Len(stack) =>
                LET d == stack[Len(stack) - 1].deliv
                    k == Len(Top.fns)
                IN  /\ Len(d) >= k
                    /\ SubSeq(d, Len(d) - k + 1, Len(d)) =
                          [j \in 1..k |-> <<Top.fns[j], Top.pl>>]
                    /\ ret'.st = "ok"
                    /\ stack' = Pop]_vars

\* a '#listener-error' callback has thrown while the failure of a listener is
\* reported, and another callback is still to be invoked
C29_Witness ==
    /\ CallbackThrew(LERR)
    /\ ReportOfEmit
    /\ Top.i <= Len(Top.fns)

\* C30: no '#listener-error' callback is invoked while another dispatch of
\* '#listener-error' is still in progress.
C30_NoNestedErrorDispatch ==
    \A m, n \in 1..Len(stack) :
       /\ stack[m].op = "emitInternal" /\ stack[m].ev = LERR
       /\ stack[n].op = "callback" /\ stack[n].ev = LERR
       => n <= m + 1

\* a dispatch is inside its try { this.#emitInternal('#listener-error', ...) }
Reporting ==
    \E n \in 1..Len(stack) :
       stack[n].op = "emitInternal" /\ stack[n].pc = "finally"

\* C31: #isReportingError is true exactly while a dispatch is reporting the
\* failure of one of its callbacks; it is false when no operation of the
\* emitter is executing, and then the failure of a '#has-listeners' or
\* '#no-listeners' callback is routed to '#listener-error' again.
C31_FlagReset ==
    /\ [](isReportingError <=> Reporting)
    /\ [](Len(stack) = 1 => ~isReportingError)
    /\ [][(CallbackThrew(HAS) \/ CallbackThrew(NOL)) /\ ~Reporting =>
             Routed /\ isReportingError']_vars

\* a dispatch of '#has-listeners' or '#no-listeners' goes on after the report
\* of a failure: the flag is false again
C31_Witness ==
    /\ Top.op = "emitInternal" /\ Top.pc = "run" /\ Top.ev \in {HAS, NOL}
    /\ Top.i > 1 /\ ret.st = "none"
    /\ ~isReportingError
    /\ internalEvents[LERR] # <<>>

\* the operations on the meta channels
MetaOps ==
    {"onHasEventListeners", "onNoEventListeners", "onListenerError",
     "internalUnsub"}

\* C32: subscribing to a meta channel, and calling the unsubscriber it
\* returned, dispatches nothing and leaves the registry alone; it changes the
\* callbacks of that one channel only.
C32_MetaSubscriptionsSilent ==
    [][budget' # budget /\ CalledOp \in MetaOps =>
          /\ stack' = stack
          /\ events' = events
          /\ nextRid' = nextRid
          /\ Cardinality({ch \in Channels :
                             internalEvents'[ch] # internalEvents[ch]}) <= 1]_vars

\* the unsubscriber of the last meta-channel callback has returned, on a live
\* emitter that has a listener
C32_Witness ==
    /\ ret.st = "ok" /\ ret.from = "internalUnsub" /\ ~ret.dead
    /\ ~isDestroyed
    /\ events # <<>>
    /\ internalEvents = EmptyInternal

FiredWrappers == {n \in 1..Len(stack) :
             stack[n].op = "wrapper" /\ stack[n].pc \in {"apply", "applied"}}

\* the wrapper on top of the stack calls this.removeListener(event, wrapper)
WrapperRemoves == Top.op = "wrapper" /\ Top.pc = "remove" /\ stack' # stack

\* C34: the wrapper of once() takes its registration out of the registry
\* before it calls the listener, with the key and a dispatch of
\* '#no-listeners' when it was the last of the event; so no emit called while
\* the listener runs has that registration in its snapshot.
C34_OnceRemovedBeforeRun ==
    /\ [](\A n \in FiredWrappers :
             /\ stack[n].ent.rid \notin AllRids(events)
             /\ \A m \in (n + 1)..Len(stack) :
                   stack[m].op = "emit" =>
                      \A j \in 1..Len(stack[m].queue) :
                         stack[m].queue[j].rid # stack[n].ent.rid)
    /\ [][WrapperRemoves /\ ~isDestroyed
             /\ Top.ent.rid \in AllRids(events) =>
             IF Count(events, Top.ev) = 1
             THEN ~HasKey(events', Top.ev) /\ Dispatched(NOL, Top.ev)
             ELSE /\ Len(stack') = Len(stack)
                  /\ Count(events', Top.ev) = Count(events, Top.ev) - 1]_vars

\* the listener of a once() registration has called emit for its own event
C34_Witness ==
    \E n \in FiredWrappers :
       /\ stack[n].pc = "applied"
       /\ n + 2 <= Len(stack)
       /\ stack[n + 1].op = "listener"
       /\ stack[n + 2].op = "emit" /\ stack[n + 2].ev = stack[n].ev

\* the listeners of the sequence ls that are not the resolver of wait w
OthersOf(ls, w) == SelectSeq(ls, LAMBDA l : ~(l.kind = "wait" /\ l.n = w))

\* the resolver on top of the stack calls one of its unsubscribers
ResolverUnsubscribes ==
    /\ Top.op = "resolver" /\ Top.pc = "unsub" /\ Top.i <= Len(Top.names)
    /\ stack' # stack

\* C35: what the resolver of a wait does, on the event path and on the timer
\* path, leaves every listener that is not its own registered and in its
\* place; each unsubscriber it calls removes its own registration for that
\* event.
C35_WaitRemovesOnlyItsOwn ==
    [][Top.op = "resolver" =>
          /\ \A e \in Keys :
                OthersOf(ListOf(events', e), Top.ent.n) =
                   OthersOf(ListOf(events, e), Top.ent.n)
          /\ ResolverUnsubscribes =>
                OthersOf(ListOf(events', Top.names[Top.i]), Top.ent.n) =
                   ListOf(events', Top.names[Top.i])]_vars

\* a wait is resolved, its resolver is gone and a listener of an event it
\* awaited is still registered
C35_Witness ==
    \E w \in 1..Len(waits) :
       /\ waits[w].res \in {"true", "false"}
       /\ Resolvers(w) = {}
       /\ \E j \in 1..Len(waits[w].subs) : Count(events, waits[w].subs[j]) > 0

\* a public operation called by user code in this step
PublicCall(op) == budget' # budget /\ CalledOp = op

\* the step calls a function of the snapshot of the emit on top of the stack
EmitCalls ==
    /\ Top.op = "emit"
    /\ Len(stack') = Len(stack) + 1
    /\ NewFrame.op \in {"listener", "wrapper", "resolver"}

\* C36: with no meta-channel callback and before destroy, every step of the
\* EventEmitter is the step EventEmitterLite takes from the same registry:
\* on, once, off and the unsubscribers change the registry as
\* EventEmitterLite's on and removeListener do; emit copies the listeners
\* EventEmitterLite.emit copies, calls them in that order, each once, logs a
\* failure as it does and returns; the dispatches to the meta channels change
\* neither the registry nor the console.
C36_SameAsLite ==
    [][internalEvents = EmptyInternal /\ ~isDestroyed =>
          /\ PublicCall("on") =>
                \E e \in Keys, fn \in Listeners :
                   events' = LiteOn(events, e,
                                    [Entry("fn", fn, 0, nextRid)
                                        EXCEPT !.mid = Emitting(e)])
          /\ PublicCall("once") =>
                \E e \in Keys, fn \in Listeners :
                   events' = LiteOn(events, e,
                                    [Entry("once", fn, nextRid, nextRid)
                                        EXCEPT !.mid = Emitting(e)])
          /\ PublicCall("off") =>
                \E e \in Keys, fn \in Listeners :
                   events' = LiteRemoveListener(events, e, PlainId(fn))
          /\ PublicCall("unsub") =>
                \E u \in unsubs :
                   /\ called' = Append(called, u.rid)
                   /\ events' = LiteRemoveListener(events, u.ev, u.target)
          /\ PublicCall("emit") =>
                /\ events' = events
                /\ IF stack' = stack
                   THEN \E e \in Keys : LiteEmitQueue(events, e) = <<>>
                   ELSE /\ NewFrame.queue = LiteEmitQueue(events, NewFrame.ev)
                        /\ NewFrame.queue # <<>>
                        /\ NewFrame.i = 1
          /\ EmitCalls =>
                /\ NewFrame.ent = Top.queue[Top.i]
                /\ NewFrame.arg = Top.arg
                /\ stack'[Len(stack)].i = Top.i + 1
                /\ stack'[Len(stack)].queue = Top.queue
                /\ UNCHANGED <<events, console>>
          /\ Top.op = "emit" /\ ret.st = "throw" =>
                /\ stack'[Len(stack)].i = Top.i
                /\ stack'[Len(stack)].pc = "catch"
                /\ UNCHANGED <<events, console>>
          /\ Top.op = "emit" /\ Top.pc = "catch" =>
                /\ console' = console + LiteEmitLogs(logErrors)
                /\ stack' = SetTop([Top EXCEPT !.pc = "run"])
                /\ events' = events
          /\ Top.op = "emit" /\ Len(stack') < Len(stack) =>
                /\ Top.i = Len(Top.queue) + 1
                /\ ret'.st = "ok"
                /\ UNCHANGED <<events, console>>
          /\ Top.op = "wrapper" /\ Top.pc = "remove" =>
                events' = LiteRemoveListener(events, Top.ev, Id(Top.ent))
          /\ Top.op = "wrapper" /\ Top.pc = "apply" =>
                /\ Len(stack') = Len(stack) + 1
                /\ NewFrame.op = "listener" /\ NewFrame.ent.fn = Top.ent.fn
                /\ NewFrame.arg = Top.arg
                /\ UNCHANGED <<events, console>>
          /\ Top.op = "emitInternal" =>
                /\ stack' = Pop
                /\ ret'.st = "ok"
                /\ UNCHANGED <<events, console>>]_vars

\* an emit returns after it called a listener that threw and the wrapper of a
\* once() registration, which removed itself
C36_Witness ==
    /\ EmitReturns
    /\ Top.threw >= 1
    /\ console >= 1
    /\ fired # <<>>
    /\ internalEvents = EmptyInternal
    /\ ~isDestroyed

\* the dispatch on top of the stack invokes its next callback
CallbackInvoked ==
    /\ Top.op = "emitInternal"
    /\ Len(stack') = Len(stack) + 1
    /\ NewFrame.op = "callback"

\* the step starts a dispatch to channel ch
DispatchStarts(ch) ==
    /\ Len(stack') = Len(stack) + 1
    /\ NewFrame.op = "emitInternal"
    /\ NewFrame.ev = ch

\* C37 as stated: when a '#has-listeners' callback is invoked with e, e has a
\* listener, and when a '#no-listeners' callback is invoked with e, e has
\* none.
C37_NotificationsCurrent ==
    [][CallbackInvoked =>
          /\ Top.ev = HAS => Count(events, Top.pl[1]) >= 1
          /\ Top.ev = NOL => Count(events, Top.pl[1]) = 0]_vars

\* C37 amended: that holds when the dispatch starts, and so for the first
\* callback of the dispatch; the callbacks after it are invoked with the same
\* e whatever the callbacks before them did to the listeners of e.
C37_NotificationsCurrentAtStart ==
    [][/\ DispatchStarts(HAS) => Count(events', NewFrame.pl[1]) >= 1
       /\ DispatchStarts(NOL) => Count(events', NewFrame.pl[1]) = 0
       /\ CallbackInvoked /\ Top.i = 1 =>
             /\ Top.ev = HAS => Count(events, Top.pl[1]) >= 1
             /\ Top.ev = NOL => Count(events, Top.pl[1]) = 0
       /\ CallbackInvoked =>
             /\ NewFrame.pl = Top.pl
             /\ NewFrame.ent.fn = Top.fns[Top.i]]_vars

\* the second '#has-listeners' callback runs with "a", whose listener the
\* first callback removed
C37_Witness ==
    /\ Len(stack) >= 2
    /\ Top.op = "callback" /\ Top.ev = HAS
    /\ stack[Len(stack) - 1].i = 3
    /\ Count(events, Top.pl[1]) = 0
    /\ ~isDestroyed

\* ---------------------------------------------------------------------------
\* Balance of the lifecycle notifications
\* ---------------------------------------------------------------------------

\* The dispatches of '#has-listeners' for e less those of '#no-listeners'.
Balance(e) == stack[1].net[e]

\* No operation is in progress: only the main program is on the stack.
Idle == Len(stack) = 1

\* C38: on a live emitter the dispatches of '#has-listeners' for an event less
\* the dispatches of '#no-listeners' for it come to 1 when the event has
\* listeners and to 0 when it has none.  The registry changes and the dispatch
\* starts with no user code in between, so the balance holds in every state,
\* the ones where no operation is in progress among them.
C38_NotificationsBalanced ==
    ~isDestroyed =>
        \A e \in Keys : Balance(e) = IF Count(events, e) > 0 THEN 1 ELSE 0

\* Two registrations were made on two events and clearEventListeners emptied
\* one of them: its balance is back to 0, the other's is 1.
C38_Witness ==
    /\ Idle
    /\ ~isDestroyed
    /\ nextRid = 3
    /\ ret.from = "clearEventListeners"
    /\ \E e, f \in Keys :
        /\ e # f
        /\ Count(events, e) = 1 /\ Balance(e) = 1
        /\ Count(events, f) = 0 /\ Balance(f) = 0

\* ---------------------------------------------------------------------------
\* Waits whose resolver was removed
\* ---------------------------------------------------------------------------

\* The executor of wait w is still registering its events.
Registering(w) ==
    \E n \in 1..Len(stack) : stack[n].op = "waitFor" /\ stack[n].ent.n = w

\* An emission in progress has the resolver of wait w still to invoke, in the
\* copy of the listeners it took when it started.
Queued(w) ==
    \E n \in 1..Len(stack) :
        /\ stack[n].op = "emit"
        /\ \E k \in stack[n].i..Len(EmitQueue(stack[n])) :
              LET l == EmitQueue(stack[n])[k]
              IN  l.kind = "wait" /\ l.n = w

\* onEvent of wait w, invoked by an emission, is running.
Resolving(w) ==
    \E n \in 1..Len(stack) :
        /\ stack[n].op = "resolver"
        /\ stack[n].ent.n = w /\ stack[n].arg = "true"

\* The timer callback of wait w is running.
TimingOut(w) ==
    \E n \in 1..Len(stack) :
        /\ stack[n].op = "resolver"
        /\ stack[n].ent.n = w /\ stack[n].arg = "false"

\* Wait w is pending and has lost its resolver: the promise was returned, the
\* resolver is registered on no event, and no emission that started before
\* the removal has it left to invoke or is running it.  Only
\* clearEventListeners, clear and destroy bring a wait there: user code has
\* neither onEvent nor its unsubscribers.
Lost(w) ==
    /\ waits[w].res = "pending"
    /\ ~Registering(w)
    /\ Resolvers(w) = {}
    /\ ~Queued(w) /\ ~Resolving(w)

\* C39: a pending wait whose resolver was removed by clearEventListeners,
\* clear or destroy is not resolved true by any emission that starts
\* afterwards: it stays as it is, pending and without a resolver, and only
\* the timer callback ends that, resolving it false.  Without a timer the
\* promise is pending forever; with one, the timer is still pending or its
\* callback is running, and the promise does resolve false.  A wait whose
\* timer was armed resolves, true or false.
C39_LostWaitNeverTrue ==
    /\ [][\A w \in 1..Len(waits) :
             Lost(w) =>
                \/ waits'[w].res = "pending" /\ Lost(w)'
                \/ /\ waits[w].timed /\ TimingOut(w)
                   /\ waits'[w].res = "false"]_vars
    /\ [](\A w \in 1..Len(waits) :
             Lost(w) =>
                IF waits[w].timed
                THEN \/ waits[w].timer = "pending"
                     \/ waits[w].timer = "fired" /\ TimingOut(w)
                ELSE waits[w].timer = "none")
    /\ \A w \in 1..MaxTimerCalls :
          /\ (IF w <= Len(waits) THEN waits[w].timed /\ Lost(w) ELSE FALSE)
                ~> (IF w <= Len(waits) THEN waits[w].res = "false" ELSE FALSE)
          /\ (IF w <= Len(waits) THEN waits[w].timer = "pending" ELSE FALSE)
                ~> (IF w <= Len(waits)
                    THEN waits[w].res \in {"true", "false"} ELSE FALSE)

\* A wait was started, its resolver was removed, and the emission made
\* afterwards has returned: the promise is still pending.
C39_Witness ==
    /\ Idle
    /\ ret.from = "emit"
    /\ budget = MaxTimerCalls - 3
    /\ Len(waits) = 1
    /\ Lost(1)

====
